---- MODULE Spec2Model ----
(***************************************************************************)
(* The launcher's persisted pipeline state machine                         *)
(* (launcher/src/state_machine.rs) and the loop that drives it             *)
(* (launcher/src/main.rs, run), the self-updater (launcher/src/updater.rs)  *)
(* the sync engine (launcher/src/sync.rs), the build orchestrator          *)
(* (launcher/src/orchestrator.rs) and the dependency manager               *)
(* (launcher/src/dependencies.rs).                                         *)
(*                                                                         *)
(* Specifications:                                                         *)
(*   SpecSM   the StateMachine object alone, its methods called in any     *)
(*            order on any stage-file content;                             *)
(*   Spec     invocations of the launcher process: run() from start to     *)
(*            return, killed at any step boundary or during a stage-file   *)
(*            write, and invoked again;                                    *)
(*   SpecUpd  run_self_update call by call on the launcher's files;        *)
(*   SpecSync run_sync call by call on the engine tree;                    *)
(*   SpecBuild run_build of main.rs call by call on the build cache;       *)
(*   SpecDeps run_dependency_audit on the dependencies the machine has;    *)
(*   SpecRecover the invocations of Spec with a kill inside apply_update,  *)
(*            the invocation after a kill not killed, under weak fairness  *)
(*            of the steps of run() and of the next invocation.            *)
(***************************************************************************)
EXTENDS Integers, Sequences, FiniteSets, TLC

VARIABLES
    file,        \* content of launcher_state.json
    cur,         \* StateMachine.current_state of the live object
    ret,         \* the last StateMachine call and what it returned
    pc,          \* position of the process: "stopped" when none is running
    result,      \* run(): the `result` local, outcome of the stage action
    executed,    \* history: stages whose action was dispatched, this invocation
    lastDone,    \* history: last stage whose action returned Ok, this invocation
    loaded,      \* history: stage StateMachine::new loaded, this invocation
    startFile,   \* history: stage-file content when this invocation started
    updateChecked, \* history: check_for_update returned in this invocation
    effects,     \* history: what the stage actions of this invocation did
    exit,        \* how the last invocation ended ("running" while one is live)
    code,        \* the exit code of the last invocation, when it ended by itself
    prevExit,    \* how the invocation before this one ended
    prevErr,     \* the error the invocation before this one returned
    err,         \* the error run() returned ("none" when it returned Ok)
    dry_run,     \* Args.dry_run of this invocation
    skip_update, \* Config.skip_update
    target,      \* content of the file at current_exe (apply_update's target_path)
    backup,      \* content of the file at target_path.with_extension("old")
    temp,        \* content of install_dir/launcher_update.exe
    upc,         \* position inside run_self_update
    info,        \* run_self_update: what check_for_update returned in Ok
    resp,        \* history: the launcher-version response of the last check
    uret,        \* the last Updater call and what it returned
    uin,         \* history: the outcomes of the requests and file operations
                 \* of the last Updater call
    engine_dir,  \* the engine directory exists
    tree,        \* the files of the engine directory, by relative path
    spc,         \* position inside run_sync
    manifest,    \* sync_files: FileManifest.files
    pending,     \* sync_files: entries the loop has not reached
    synced_count, \* sync_files: the `synced_count` local
    sret,        \* the last SyncManager call and what it returned
    got,         \* history: what the last download of the sync engine received
    why,         \* history: why run_sync called download_full_archive
    requested,   \* history: entries download_file was called for, this sync_files
    downloaded,  \* history: entries download_file returned Ok for, this sync_files
    prevManifest, \* history: the manifest of the run_sync before, if sync_files returned Ok
    force_rebuild, \* Config.force_rebuild
    build_marker, \* engine_dir/target/release/.build_complete exists
    version_file, \* content of engine_dir/.build_version
    source_file, \* content of engine_dir/VERSION
    bpc,         \* position inside run_build of main.rs
    bret,        \* the last BuildOrchestrator call and what it returned
    rebuild,     \* history: what needs_rebuild returned, this Build stage
    built,       \* history: run_build returned Ok, this Build stage
    present,     \* the dependencies check_all finds on the machine
    dpc,         \* position of run_dependency_audit: "idle" or "returned"
    audit        \* history: the last run_dependency_audit, what it did and returned

vars == <<file, cur, ret, pc, result, executed, lastDone, loaded, startFile,
          updateChecked, effects, exit, code, prevExit, prevErr, err, dry_run, skip_update,
          target, backup, temp, upc, info, resp, uret, uin,
          engine_dir, tree, spc, manifest, pending, synced_count, sret, got,
          why, requested, downloaded, prevManifest,
          force_rebuild, build_marker, version_file, source_file, bpc, bret,
          rebuild, built, present, dpc, audit>>

updVars == <<target, backup, temp, upc, info, resp, uret, uin>>

(* The variables of the components the stage actions drive. *)
syncVars == <<engine_dir, tree, spc, manifest, pending, synced_count, sret,
              got, why, requested, downloaded, prevManifest>>

buildVars == <<force_rebuild, build_marker, version_file, source_file, bpc, bret,
               rebuild, built>>

depVars == <<present, dpc, audit>>

toolVars == <<buildVars, depVars>>

compVars == <<updVars, syncVars, toolVars>>

runVars == <<result, executed, lastDone, loaded, startFile, updateChecked, effects,
             exit, code, prevExit, prevErr, err, dry_run, skip_update>>

-----------------------------------------------------------------------------
(* enum LauncherState: the variants by discriminant *)
LSInit == 0
LSSelfUpdate == 1
LSDependencyAudit == 2
LSSync == 3
LSBuild == 4
LSLaunch == 5
LSComplete == 6
LSFailed == 7

LauncherState == {LSInit, LSSelfUpdate, LSDependencyAudit, LSSync, LSBuild,
                  LSLaunch, LSComplete, LSFailed}

(* Option<T> *)
None == <<>>
Some(x) == <<x>>

(* A bug next could have: the loop of a failed pipeline restarts by itself. *)
next_failed_restarts(s) ==
    CASE s = LSInit -> Some(LSSelfUpdate)
      [] s = LSSelfUpdate -> Some(LSDependencyAudit)
      [] s = LSDependencyAudit -> Some(LSSync)
      [] s = LSSync -> Some(LSBuild)
      [] s = LSBuild -> Some(LSLaunch)
      [] s = LSLaunch -> Some(LSComplete)
      [] s = LSComplete -> None
      [] s = LSFailed -> Some(LSInit)

(* A bug next could have: Sync is left out of the order. *)
next_skips_sync(s) ==
    CASE s = LSInit -> Some(LSSelfUpdate)
      [] s = LSSelfUpdate -> Some(LSDependencyAudit)
      [] s = LSDependencyAudit -> Some(LSBuild)
      [] s = LSSync -> Some(LSBuild)
      [] s = LSBuild -> Some(LSLaunch)
      [] s = LSLaunch -> Some(LSComplete)
      [] s = LSComplete -> None
      [] s = LSFailed -> None

(* A bug next could have: SelfUpdate is left out of the order. *)
next_skips_self_update(s) ==
    CASE s = LSInit -> Some(LSDependencyAudit)
      [] s = LSSelfUpdate -> Some(LSDependencyAudit)
      [] s = LSDependencyAudit -> Some(LSSync)
      [] s = LSSync -> Some(LSBuild)
      [] s = LSBuild -> Some(LSLaunch)
      [] s = LSLaunch -> Some(LSComplete)
      [] s = LSComplete -> None
      [] s = LSFailed -> None

(* LauncherState::next *)
next(s) ==
    CASE s = LSInit -> Some(LSSelfUpdate)
      [] s = LSSelfUpdate -> Some(LSDependencyAudit)
      [] s = LSDependencyAudit -> Some(LSSync)
      [] s = LSSync -> Some(LSBuild)
      [] s = LSBuild -> Some(LSLaunch)
      [] s = LSLaunch -> Some(LSComplete)
      [] s = LSComplete -> None
      [] s = LSFailed -> None

(* #[derive(Debug)]: format!("{:?}", state) is the variant's name *)
DebugName(s) ==
    CASE s = LSInit -> "Init"
      [] s = LSSelfUpdate -> "SelfUpdate"
      [] s = LSDependencyAudit -> "DependencyAudit"
      [] s = LSSync -> "Sync"
      [] s = LSBuild -> "Build"
      [] s = LSLaunch -> "Launch"
      [] s = LSComplete -> "Complete"
      [] s = LSFailed -> "Failed"

(* impl fmt::Display: the text shown to the user, not the text persisted *)
DisplayName(s) ==
    CASE s = LSInit -> "Initializing"
      [] s = LSSelfUpdate -> "Checking for Updates"
      [] s = LSDependencyAudit -> "Verifying Dependencies"
      [] s = LSSync -> "Syncing Files"
      [] s = LSBuild -> "Building Engine"
      [] s = LSLaunch -> "Launching Game"
      [] s = LSComplete -> "Complete"
      [] s = LSFailed -> "Failed"

-----------------------------------------------------------------------------
(* The stage file.  kind: whether the file exists and parses as JSON;       *)
(* field: what data.get("state") is; str: the string when it is one.  The   *)
(* "timestamp" field is never read back and is left out.                    *)
Absent == [kind |-> "absent", field |-> "missing", str |-> ""]
NotJson == [kind |-> "notjson", field |-> "missing", str |-> ""]
JsonNoState == [kind |-> "json", field |-> "missing", str |-> ""]
JsonStateNotString == [kind |-> "json", field |-> "nonstring", str |-> ""]
StateJson(name) == [kind |-> "json", field |-> "string", str |-> name]

(* Strings a stage file may carry that save_state never writes. *)
ForeignNames == {"Initializing", "Checking for Updates", "init", "COMPLETE", ""}

FileContents ==
    {Absent, NotJson, JsonNoState, JsonStateNotString}
    \cup {StateJson(DebugName(s)) : s \in LauncherState}
    \cup {StateJson(n) : n \in ForeignNames}

(* A bug load_state could have: an unknown name is taken for Failed. *)
load_state_unknown_is_failed(f) ==
    IF f.kind # "json" THEN None
    ELSE IF f.field # "string" THEN None
    ELSE CASE f.str = "Init" -> Some(LSInit)
           [] f.str = "SelfUpdate" -> Some(LSSelfUpdate)
           [] f.str = "DependencyAudit" -> Some(LSDependencyAudit)
           [] f.str = "Sync" -> Some(LSSync)
           [] f.str = "Build" -> Some(LSBuild)
           [] f.str = "Launch" -> Some(LSLaunch)
           [] f.str = "Complete" -> Some(LSComplete)
           [] OTHER -> Some(LSFailed)

(* StateMachine::load_state *)
load_state(f) ==
    IF f.kind = "absent" THEN None            \* read_to_string(path).ok()?
    ELSE IF f.kind = "notjson" THEN None      \* from_str(&content).ok()?
    ELSE IF f.field = "missing" THEN None     \* data.get("state")?
    ELSE IF f.field = "nonstring" THEN None   \* .as_str()?
    ELSE CASE f.str = "Init" -> Some(LSInit)
           [] f.str = "SelfUpdate" -> Some(LSSelfUpdate)
           [] f.str = "DependencyAudit" -> Some(LSDependencyAudit)
           [] f.str = "Sync" -> Some(LSSync)
           [] f.str = "Build" -> Some(LSBuild)
           [] f.str = "Launch" -> Some(LSLaunch)
           [] f.str = "Complete" -> Some(LSComplete)
           [] f.str = "Failed" -> Some(LSFailed)
           [] OTHER -> None

(* Option::unwrap_or *)
unwrap_or(opt, d) == IF opt = None THEN d ELSE opt[1]

(* What a StateMachine call returned: the method, Ok/Err and the payload. *)
Ret(call, tag, v) == [call |-> call, tag |-> tag, v |-> v]

(* std::fs::write in save_state: "written" replaces the content; "refused"  *)
(* fails before the file is touched (create_dir_all or the open fails);     *)
(* "torn" fails after the file was truncated (the write itself fails).      *)
WriteOutcomes == {"written", "refused", "torn"}

(* A bug save_state could have: it writes the Display text of the stage     *)
(* ("{}") instead of the Debug text ("{:?}").                               *)
save_state_display(s, w) ==
    file' = CASE w = "written" -> StateJson(DisplayName(s))
              [] w = "refused" -> file
              [] w = "torn" -> NotJson

(* StateMachine::save_state, writing state s *)
save_state(s, w) ==
    file' = CASE w = "written" -> StateJson(DebugName(s))
              [] w = "refused" -> file
              [] w = "torn" -> NotJson

(* A bug StateMachine::new could have: the stage file is not consulted. *)
new_ignores_file ==
    /\ cur' = LSInit
    /\ ret' = Ret("new", "Ok", cur')
    /\ UNCHANGED file

(* StateMachine::new *)
new ==
    /\ cur' = unwrap_or(load_state(file), LSInit)
    /\ ret' = Ret("new", "Ok", cur')
    /\ UNCHANGED file

(* StateMachine::current *)
current == cur

(* A bug transition could have: the successor is returned but not saved. *)
transition_unsaved(w) ==
    IF next(cur) # None
    THEN /\ cur' = next(cur)[1]
         /\ UNCHANGED file
         /\ ret' = Ret("transition", "OkSome", cur')
    ELSE /\ UNCHANGED <<cur, file>>
         /\ ret' = Ret("transition", "OkNone", cur)

(* StateMachine::transition *)
transition(w) ==
    IF next(cur) # None
    THEN /\ cur' = next(cur)[1]
         /\ save_state(cur', w)
         /\ ret' = IF w = "written"
                   THEN Ret("transition", "OkSome", cur')
                   ELSE Ret("transition", "Err", cur')
    ELSE /\ UNCHANGED <<cur, file>>
         /\ ret' = Ret("transition", "OkNone", cur)

(* A bug fail could have: the file is written first and the stage in memory *)
(* is changed only when the write succeeded.                                *)
fail_write_first(w) ==
    /\ save_state(LSFailed, w)
    /\ cur' = IF w = "written" THEN LSFailed ELSE cur
    /\ ret' = Ret("fail", IF w = "written" THEN "Ok" ELSE "Err", cur')

(* A bug fail could have: Failed is set in memory and never written. *)
fail_unsaved(w) ==
    /\ cur' = LSFailed
    /\ UNCHANGED file
    /\ ret' = Ret("fail", "Ok", cur')

(* StateMachine::fail *)
fail(w) ==
    /\ cur' = LSFailed
    /\ save_state(cur', w)
    /\ ret' = Ret("fail", IF w = "written" THEN "Ok" ELSE "Err", cur')

(* A bug reset could have: Init is set in memory and never written. *)
reset_unsaved(w) ==
    /\ cur' = LSInit
    /\ UNCHANGED file
    /\ ret' = Ret("reset", "Ok", cur')

(* StateMachine::reset *)
reset(w) ==
    /\ cur' = LSInit
    /\ save_state(cur', w)
    /\ ret' = Ret("reset", IF w = "written" THEN "Ok" ELSE "Err", cur')

(* StateMachine::set_state *)
set_state(s, w) ==
    /\ cur' = s
    /\ save_state(cur', w)
    /\ ret' = Ret("set_state", IF w = "written" THEN "Ok" ELSE "Err", cur')

(* A bug clear_saved_state could have: the file is left in place. *)
clear_saved_state_keeps(removed) ==
    /\ ret' = Ret("clear_saved_state", "Ok", cur)
    /\ UNCHANGED <<file, cur>>

(* StateMachine::clear_saved_state; removed: whether remove_file succeeds *)
clear_saved_state(removed) ==
    /\ file' = IF file.kind # "absent" /\ removed THEN Absent ELSE file
    /\ ret' = Ret("clear_saved_state",
                  IF file.kind # "absent" /\ ~removed THEN "Err" ELSE "Ok", cur)
    /\ UNCHANGED cur

-----------------------------------------------------------------------------
(* The self-updater (launcher/src/updater.rs).                              *)
(*                                                                          *)
(* File contents are byte strings named by what they are.  Sha256 is taken  *)
(* collision-free: the digest of a content is the content's name.           *)
(* hex::encode writes a digest as lower-case hexadecimal text; a checksum   *)
(* the server sends is text, which may spell the same digest in upper case. *)

Missing == "missing"

(* the executable that is running *)
InstalledBinary == "launcher-1.0.0"

(* what the launcher-binary endpoint may send *)
ServedBinaries == {"launcher-1.1.0", "other-bytes"}

(* what std::fs::write leaves when it fails after truncating *)
Partial == "partial"

Contents == {InstalledBinary, Partial} \cup ServedBinaries

Sha256(bytes) == [digest |-> bytes]

hex_encode(d) == [digest |-> d.digest, upper |-> FALSE]

(* checksum texts a launcher-version response may carry *)
ChecksumTexts == {[digest |-> b, upper |-> u] : b \in ServedBinaries, u \in BOOLEAN}

(* The version string an executable was built with; "other-bytes" is a      *)
(* build that still carries 1.0.0, a file that is no executable has none.   *)
BuiltInVersion(b) ==
    CASE b = "launcher-1.0.0" -> "1.0.0"
      [] b = "launcher-1.1.0" -> "1.1.0"
      [] b = "other-bytes" -> "1.0.0"
      [] OTHER -> ""

(* config.rs: pub const LAUNCHER_VERSION, of the executable that runs: the  *)
(* one at current_exe, which run_self_update replaces only after the check. *)
LAUNCHER_VERSION == BuiltInVersion(target)

Versions == {"1.0.0", "1.1.0"}

(* What the GET of /sync/launcher-version comes to: send() fails            *)
(* ("send_error": no connection, or the 30 s timeout), a status that is not  *)
(* a success, a body that is not a VersionResponse, or a VersionResponse.    *)
NoResponse == [kind |-> "none", version |-> "", checksum |-> None]

VersionResponses ==
    {[kind |-> k, version |-> "", checksum |-> None] :
        k \in {"send_error", "status_error", "bad_json"}}
    \cup {[kind |-> "json", version |-> v, checksum |-> c] :
            v \in Versions, c \in {None} \cup {Some(t) : t \in ChecksumTexts}}

(* Option<UpdateInfo>; UpdateInfo is [version, checksum] *)
UpdateInfo(r) == [version |-> r.version, checksum |-> r.checksum[1]]

(* A bug check_for_update could have: an update without a checksum is       *)
(* skipped as if there were none.                                           *)
check_for_update_skips(current_version, r) ==
    CASE r.kind = "send_error" -> [tag |-> "Err", v |-> "timeout", info |-> None]
      [] r.kind = "status_error" -> [tag |-> "OkNone", v |-> "", info |-> None]
      [] r.kind = "bad_json" -> [tag |-> "Err", v |-> "protocol", info |-> None]
      [] r.kind = "json" ->
           IF r.version # current_version /\ r.checksum # None
           THEN [tag |-> "OkSome", v |-> "", info |-> Some(UpdateInfo(r))]
           ELSE [tag |-> "OkNone", v |-> "", info |-> None]

(* A bug check_for_update could have: the version compared with is that of *)
(* the executable first installed, not that of the one that runs.           *)
check_for_update_first_installed(current_version, r) ==
    CASE r.kind = "send_error" -> [tag |-> "Err", v |-> "timeout", info |-> None]
      [] r.kind = "status_error" -> [tag |-> "OkNone", v |-> "", info |-> None]
      [] r.kind = "bad_json" -> [tag |-> "Err", v |-> "protocol", info |-> None]
      [] r.kind = "json" ->
           IF r.version # BuiltInVersion(InstalledBinary)
           THEN IF r.checksum = None
                THEN [tag |-> "Err", v |-> "no_checksum", info |-> None]
                ELSE [tag |-> "OkSome", v |-> "", info |-> Some(UpdateInfo(r))]
           ELSE [tag |-> "OkNone", v |-> "", info |-> None]

(* Updater::check_for_update, on the response r; current_version is the    *)
(* LAUNCHER_VERSION of the executable that runs.                            *)
check_for_update(current_version, r) ==
    CASE r.kind = "send_error" -> [tag |-> "Err", v |-> "timeout", info |-> None]
      [] r.kind = "status_error" -> [tag |-> "OkNone", v |-> "", info |-> None]
      [] r.kind = "bad_json" -> [tag |-> "Err", v |-> "protocol", info |-> None]
      [] r.kind = "json" ->
           IF r.version # current_version
           THEN IF r.checksum = None
                THEN [tag |-> "Err", v |-> "no_checksum", info |-> None]
                ELSE [tag |-> "OkSome", v |-> "", info |-> Some(UpdateInfo(r))]
           ELSE [tag |-> "OkNone", v |-> "", info |-> None]

(* The launcher's files: [target, backup, temp], each Missing or a content. *)
Disks == [target : {Missing} \cup Contents,
          backup : {Missing} \cup Contents,
          temp : {Missing} \cup Contents]

(* What the GET of /sync/launcher-binary comes to; "body_error" is          *)
(* response.bytes() failing.                                                *)
BinaryDownloads ==
    {[kind |-> k, bytes |-> ""] : k \in {"send_error", "status_error", "body_error"}}
    \cup {[kind |-> "bytes", bytes |-> b] : b \in ServedBinaries}

(* Updater::download_update(temp_path); w is the outcome of std::fs::write  *)
download_update(d, dl, w) ==
    CASE dl.kind \in {"send_error", "body_error"} ->
           [disk |-> d, tag |-> "Err", v |-> "timeout"]
      [] dl.kind = "status_error" -> [disk |-> d, tag |-> "Err", v |-> "http"]
      [] dl.kind = "bytes" ->
           CASE w = "written" ->
                  [disk |-> [d EXCEPT !.temp = dl.bytes], tag |-> "Ok", v |-> ""]
             [] w = "refused" -> [disk |-> d, tag |-> "Err", v |-> "filesystem"]
             [] w = "torn" ->
                  [disk |-> [d EXCEPT !.temp = Partial], tag |-> "Err",
                   v |-> "filesystem"]

(* A bug verify_checksum could have: any file that can be read passes. *)
verify_checksum_any(d, expected, readable) ==
    IF d.temp = Missing \/ ~readable
    THEN [tag |-> "Err", v |-> "filesystem", ok |-> FALSE]
    ELSE [tag |-> "Ok", v |-> "", ok |-> TRUE]

(* Updater::verify_checksum(file_path, expected) on the temporary file;     *)
(* readable: std::fs::read succeeds                                         *)
verify_checksum(d, expected, readable) ==
    IF d.temp = Missing \/ ~readable
    THEN [tag |-> "Err", v |-> "filesystem", ok |-> FALSE]
    ELSE [tag |-> "Ok", v |-> "", ok |-> hex_encode(Sha256(d.temp)) = expected]

(* The inputs of download_and_verify: the download, the outcome of the      *)
(* write, of the read and of the remove_file.                               *)
VerifyInputs == [dl : BinaryDownloads, w : WriteOutcomes,
                 readable : BOOLEAN, removed : BOOLEAN]

(* A bug download_and_verify could have: a rejected file is left in place. *)
download_and_verify_keeps(d, expected, in) ==
    LET dw == download_update(d, in.dl, in.w)
        vc == verify_checksum(dw.disk, expected, in.readable)
    IN  IF dw.tag = "Err" THEN dw
        ELSE IF vc.tag = "Err" THEN [disk |-> dw.disk, tag |-> "Err", v |-> vc.v]
        ELSE IF ~vc.ok THEN [disk |-> dw.disk, tag |-> "Err", v |-> "integrity"]
        ELSE [disk |-> dw.disk, tag |-> "Ok", v |-> ""]

(* Updater::download_and_verify(temp_path, expected_checksum) *)
download_and_verify(d, expected, in) ==
    LET dw == download_update(d, in.dl, in.w)
        vc == verify_checksum(dw.disk, expected, in.readable)
    IN  IF dw.tag = "Err" THEN dw
        ELSE IF vc.tag = "Err" THEN [disk |-> dw.disk, tag |-> "Err", v |-> vc.v]
        ELSE IF ~vc.ok
             THEN [disk |-> IF dw.disk.temp # Missing /\ in.removed
                            THEN [dw.disk EXCEPT !.temp = Missing]
                            ELSE dw.disk,
                   tag |-> "Err", v |-> "integrity"]
        ELSE [disk |-> dw.disk, tag |-> "Ok", v |-> ""]

(* The outcomes of the file operations of apply_update. *)
FsOutcomes == [backup_rename : BOOLEAN, replace_rename : BOOLEAN,
               rollback_rename : BOOLEAN, remove_backup : BOOLEAN]

(* A bug apply_update could have: the running executable is removed, not    *)
(* renamed to the backup path, before the download is renamed into place.   *)
apply_update_in_place(d, fs) ==
    LET d1 == [d EXCEPT !.target = Missing]
    IN  IF fs.replace_rename /\ d1.temp # Missing
        THEN [disk |-> [d1 EXCEPT !.target = d1.temp, !.temp = Missing],
              tag |-> "Ok", v |-> ""]
        ELSE [disk |-> d1, tag |-> "Err", v |-> "filesystem"]

(* Updater::apply_update(temp_path, target_path).  A rename of a missing    *)
(* file fails; a rename onto an existing file replaces it.                  *)
apply_update(d, fs) ==
    IF d.target # Missing /\ ~fs.backup_rename
    THEN [disk |-> d, tag |-> "Err", v |-> "filesystem"]
    ELSE LET d1 == IF d.target # Missing
                   THEN [d EXCEPT !.backup = d.target, !.target = Missing]
                   ELSE d
         IN  IF fs.replace_rename /\ d1.temp # Missing
             THEN LET d2 == [d1 EXCEPT !.target = d1.temp, !.temp = Missing]
                  IN  [disk |-> IF d2.backup # Missing /\ fs.remove_backup
                                THEN [d2 EXCEPT !.backup = Missing]
                                ELSE d2,
                       tag |-> "Ok", v |-> ""]
             ELSE [disk |-> IF d1.backup # Missing /\ fs.rollback_rename
                            THEN [d1 EXCEPT !.target = d1.backup,
                                            !.backup = Missing]
                            ELSE d1,
                   tag |-> "Err", v |-> "filesystem"]

(* The launcher's files as one record, and their assignment. *)
disk == [target |-> target, backup |-> backup, temp |-> temp]

SetDisk(d) ==
    /\ target' = d.target
    /\ backup' = d.backup
    /\ temp' = d.temp

(* The files when the process is killed inside apply_update, its file       *)
(* operations having succeeded up to the kill: after the rename of          *)
(* target_path to backup_path, or after the rename of temp_path to          *)
(* target_path as well.                                                     *)
KillPointsOfApply == {"after_backup_rename", "after_replace_rename"}

apply_update_killed(d, at) ==
    LET d1 == IF d.target # Missing
              THEN [d EXCEPT !.backup = d.target, !.target = Missing]
              ELSE d
    IN  IF at = "after_backup_rename"
        THEN d1
        ELSE [d1 EXCEPT !.target = d1.temp, !.temp = Missing]

(* A bug run_self_update could have: an error of the update check is        *)
(* logged and the stage goes on as if there were no update.                 *)
UpdOutcome_ignores_check_error(u) ==
    IF u.tag = "Err" /\ u.call # "check_for_update" THEN u.v
    ELSE IF u.call = "apply_update" THEN "restart"
    ELSE "ok"

(* A bug run_self_update could have: it returns Ok after apply_update       *)
(* instead of ending the process.                                           *)
UpdOutcome_no_restart(u) ==
    IF u.tag = "Err" THEN u.v ELSE "ok"

(* What run_self_update comes to, given the last Updater call: the error it *)
(* returns, "restart" when request_restart ends the process, or "ok".       *)
UpdOutcome(u) ==
    IF u.tag = "Err" THEN u.v
    ELSE IF u.call = "apply_update" THEN "restart"
    ELSE "ok"

(* uin before any Updater call that takes inputs *)
NoInput == [dl |-> [kind |-> "none", bytes |-> ""], w |-> "written",
            readable |-> TRUE, removed |-> TRUE]

(* The updater's variables before any update check. *)
InitUpdVars ==
    /\ target = InstalledBinary
    /\ backup = Missing
    /\ temp = Missing
    /\ upc = "idle"
    /\ info = None
    /\ resp = NoResponse
    /\ uret = Ret("none", "Ok", "")
    /\ uin = NoInput

-----------------------------------------------------------------------------
(* The sync engine (launcher/src/sync.rs).                                  *)
(*                                                                          *)
(* The engine tree is a function from relative paths to file contents.  A   *)
(* content is a string: its size (metadata.len()) is the string's length.   *)

(* paths a manifest may name, and a path only the full archive has *)
ManifestPaths == {"src/a", "src/b"}

ArchiveOnlyPath == "src/c"

Paths == ManifestPaths \cup {ArchiveOnlyPath}

(* what the /sync/file endpoint may send *)
ServedFiles == {"x", "y", "zz"}

(* what std::fs::write leaves when it fails after truncating *)
TornFile == ""

EmptyTree == [p \in Paths |-> Missing]

(* struct FileInfo; NoEntry: the manifest has no entry for the path *)
NoEntry == [checksum |-> [digest |-> "", upper |-> FALSE], size |-> Len("")]

FileInfos ==
    {[checksum |-> [digest |-> c, upper |-> FALSE], size |-> Len(c)] :
        c \in ServedFiles}
    \cup {[checksum |-> [digest |-> "x", upper |-> TRUE], size |-> Len("x")],
          [checksum |-> [digest |-> "x", upper |-> FALSE], size |-> Len("zz")]}

(* FileManifest.files *)
Manifests == [ManifestPaths -> FileInfos \cup {NoEntry}]

Entries(m) == {p \in ManifestPaths : m[p] # NoEntry}

(* The full archives the /sync/full.zip endpoint may send, as the tree each *)
(* one extracts to; NotZip is a body ZipArchive::new rejects.               *)
Archives ==
    {[p \in Paths |-> CASE p = "src/a" -> "x" [] p = "src/b" -> "zz"
                        [] p = "src/c" -> "y"],
     [p \in Paths |-> CASE p = "src/a" -> "y" [] p = "src/b" -> Missing
                        [] p = "src/c" -> Missing]}

NotZip == [p \in Paths |-> "notzip"]

(* What a GET comes to: send() fails, a status that is not a success, the   *)
(* body cannot be read or parsed, or a body.                                *)
FailedRequests == {"send_error", "status_error", "body_error"}

FileDownloads ==
    {[kind |-> k, bytes |-> ""] : k \in FailedRequests}
    \cup {[kind |-> "bytes", bytes |-> b] : b \in ServedFiles}

RequestError(kind) == IF kind = "status_error" THEN "http" ELSE "timeout"

(* SyncManager::calculate_checksum on a file that can be read *)
calculate_checksum(bytes) == hex_encode(Sha256(bytes))

(* A bug file_needs_sync could have: every entry is taken to need a sync. *)
file_needs_sync_always(local, fi, io) == [tag |-> "Ok", needs |-> TRUE]

(* A bug file_needs_sync could have: a file of the right size is in sync. *)
file_needs_sync_size_only(local, fi, io) ==
    IF local = Missing THEN [tag |-> "Ok", needs |-> TRUE]
    ELSE IF ~io.stat THEN [tag |-> "Err", needs |-> FALSE]
    ELSE [tag |-> "Ok", needs |-> Len(local) # fi.size]

(* SyncManager::file_needs_sync(local_path, info); io: std::fs::metadata    *)
(* and std::fs::read succeed                                                *)
file_needs_sync(local, fi, io) ==
    IF local = Missing THEN [tag |-> "Ok", needs |-> TRUE]
    ELSE IF ~io.stat THEN [tag |-> "Err", needs |-> FALSE]
    ELSE IF Len(local) # fi.size THEN [tag |-> "Ok", needs |-> TRUE]
    ELSE IF ~io.read THEN [tag |-> "Err", needs |-> FALSE]
    ELSE [tag |-> "Ok", needs |-> calculate_checksum(local) # fi.checksum]

(* A bug download_file could have: the bytes are written before they are    *)
(* verified.                                                                *)
download_file_unverified_write(t, p, fi, in) ==
    IF ~in.mkdir THEN [tree |-> t, tag |-> "Err", v |-> "filesystem"]
    ELSE IF in.dl.kind # "bytes"
    THEN [tree |-> t, tag |-> "Err", v |-> RequestError(in.dl.kind)]
    ELSE IF in.w = "refused" THEN [tree |-> t, tag |-> "Err", v |-> "filesystem"]
    ELSE IF in.w = "torn"
    THEN [tree |-> [t EXCEPT ![p] = TornFile], tag |-> "Err", v |-> "filesystem"]
    ELSE IF hex_encode(Sha256(in.dl.bytes)) # fi.checksum
    THEN [tree |-> [t EXCEPT ![p] = in.dl.bytes], tag |-> "Err", v |-> "integrity"]
    ELSE [tree |-> [t EXCEPT ![p] = in.dl.bytes], tag |-> "Ok", v |-> ""]

(* SyncManager::download_file(remote_path, local_path, info); in: the       *)
(* outcomes of create_dir_all, of the GET and of std::fs::write             *)
download_file(t, p, fi, in) ==
    IF ~in.mkdir THEN [tree |-> t, tag |-> "Err", v |-> "filesystem"]
    ELSE IF in.dl.kind # "bytes"
    THEN [tree |-> t, tag |-> "Err", v |-> RequestError(in.dl.kind)]
    ELSE IF hex_encode(Sha256(in.dl.bytes)) # fi.checksum
    THEN [tree |-> t, tag |-> "Err", v |-> "integrity"]
    ELSE CASE in.w = "written" ->
                [tree |-> [t EXCEPT ![p] = in.dl.bytes], tag |-> "Ok", v |-> ""]
           [] in.w = "refused" -> [tree |-> t, tag |-> "Err", v |-> "filesystem"]
           [] in.w = "torn" ->
                [tree |-> [t EXCEPT ![p] = TornFile], tag |-> "Err",
                 v |-> "filesystem"]

(* the inputs of one iteration of the loop of sync_files *)
EntryInputs == [stat : BOOLEAN, read : BOOLEAN, mkdir : BOOLEAN,
                dl : FileDownloads, w : WriteOutcomes]

(* std::fs::remove_dir_all(&engine_dir) on tree t: it removes the files one *)
(* by one and stops at the first it cannot remove; gone is what it removed. *)
remove_dir_all(t, gone) == [p \in Paths |-> IF p \in gone THEN Missing ELSE t[p]]

Files(t) == {p \in Paths : t[p] # Missing}

(* archive.extract(engine_dir): the files of the archive are written over   *)
(* what is there; done is what was written when it stopped.                 *)
extract(t, a, done) == [p \in Paths |-> IF p \in done THEN a[p] ELSE t[p]]

(* Result of a SyncManager call: Ok with a count, or Err with its kind. *)
SyncRet(call, tag, v, n) == [call |-> call, tag |-> tag, v |-> v, n |-> n]

(* got: what the last download received.  engine.zip holds the archive     *)
(* received from the write in download_full_archive to the extraction that  *)
(* follows it; no call reads an engine.zip left by an earlier call.         *)
NothingReceived == [kind |-> "none", bytes |-> "", archive |-> EmptyTree]

ReceivedFile(dl) == [kind |-> dl.kind, bytes |-> dl.bytes, archive |-> EmptyTree]

ReceivedArchive(a) == [kind |-> "archive", bytes |-> "", archive |-> a]

(* The sync engine's variables before the first sync: nothing installed. *)
InitSyncVars ==
    /\ engine_dir = FALSE
    /\ tree = EmptyTree
    /\ spc = "idle"
    /\ manifest = [p \in ManifestPaths |-> NoEntry]
    /\ pending = {}
    /\ synced_count = 0
    /\ sret = SyncRet("none", "Ok", "", 0)
    /\ got = NothingReceived
    /\ why = "none"
    /\ requested = {}
    /\ downloaded = {}
    /\ prevManifest = None

-----------------------------------------------------------------------------
(* The build orchestrator (launcher/src/orchestrator.rs).                   *)
(*                                                                          *)
(* Three files of the engine directory carry the build cache: VERSION (the  *)
(* source version, installed by the sync), .build_version (the version the  *)
(* last build was made from) and target/release/.build_complete.  A         *)
(* BuildDisk is [build_marker, version_file, VERSION]: whether              *)
(* .build_complete exists, and the content of the other two or Missing.     *)
(* build-orchestrator.ps1, the script run_build starts, is not part of the  *)
(* launcher: it is taken to leave the three files alone.                    *)

(* texts a version file may hold *)
VersionTexts == {"v1", "v1\n", "v2"}

(* str::trim, over the texts of the model *)
trim(t) == IF t = "v1\n" THEN "v1" ELSE t

BuildDisks == [build_marker : BOOLEAN,
               version_file : {Missing, TornFile} \cup VersionTexts,
               VERSION : {Missing} \cup VersionTexts]

(* Result of a BuildOrchestrator call *)
BuildRet(call, tag, v) == [call |-> call, tag |-> tag, v |-> v]

(* BuildOrchestrator::check_build_cache *)
check_build_cache(bd) == bd.build_marker

(* BuildOrchestrator::get_source_version; readable: read_to_string succeeds *)
get_source_version(bd, readable) ==
    IF bd.VERSION # Missing
    THEN IF readable THEN [tag |-> "Ok", v |-> bd.VERSION]
                     ELSE [tag |-> "Err", v |-> "filesystem"]
    ELSE [tag |-> "Ok", v |-> "unknown"]

(* the two reads of needs_rebuild and whether each succeeds *)
ReadOutcomes == [cached : BOOLEAN, source : BOOLEAN]

(* A bug needs_rebuild could have: the force flag is not consulted. *)
needs_rebuild_ignores_force(bd, force, io) ==
    IF ~check_build_cache(bd) THEN [tag |-> "Ok", v |-> TRUE]
    ELSE IF bd.version_file = Missing THEN [tag |-> "Ok", v |-> TRUE]
    ELSE IF ~io.cached THEN [tag |-> "Err", v |-> "filesystem"]
    ELSE LET current_version == get_source_version(bd, io.source)
         IN  IF current_version.tag = "Err" THEN current_version
             ELSE [tag |-> "Ok",
                   v |-> trim(bd.version_file) # trim(current_version.v)]

(* BuildOrchestrator::needs_rebuild; force is config.force_rebuild *)
needs_rebuild(bd, force, io) ==
    IF force THEN [tag |-> "Ok", v |-> TRUE]
    ELSE IF ~check_build_cache(bd) THEN [tag |-> "Ok", v |-> TRUE]
    ELSE IF bd.version_file = Missing THEN [tag |-> "Ok", v |-> TRUE]
    ELSE IF ~io.cached THEN [tag |-> "Err", v |-> "filesystem"]
    ELSE LET current_version == get_source_version(bd, io.source)
         IN  IF current_version.tag = "Err" THEN current_version
             ELSE [tag |-> "Ok",
                   v |-> trim(bd.version_file) # trim(current_version.v)]

(* What starting a child process comes to: the program is not there, the   *)
(* spawn fails, the child exits with a failure status, or it succeeds.      *)
ChildRuns == {"not_found", "spawn_failed", "exit_failure", "success"}

(* BuildOrchestrator::run_build: build-orchestrator.ps1 under powershell *)
run_build_script(child) ==
    IF child = "success" THEN [tag |-> "Ok", v |-> "none"]
    ELSE IF child = "exit_failure" THEN [tag |-> "Err", v |-> "build_failed"]
    ELSE [tag |-> "Err", v |-> "environment"]

(* the file operations of save_build_version and how each ends *)
SaveOutcomes == [source : BOOLEAN, version : WriteOutcomes, mkdir : BOOLEAN,
                 marker : WriteOutcomes]

(* BuildOrchestrator::save_build_version: .build_version first, then        *)
(* .build_complete.  A write that fails after truncating leaves the file    *)
(* there and empty.                                                         *)
save_build_version(bd, io) ==
    LET version == get_source_version(bd, io.source)
        failed(d) == [disk |-> d, tag |-> "Err", v |-> "filesystem"]
        versioned == [bd EXCEPT !.version_file = version.v]
    IN  IF version.tag = "Err" THEN failed(bd)
        ELSE IF io.version = "refused" THEN failed(bd)
        ELSE IF io.version = "torn"
             THEN failed([bd EXCEPT !.version_file = TornFile])
        ELSE IF ~io.mkdir THEN failed(versioned)
        ELSE IF io.marker = "refused" THEN failed(versioned)
        ELSE IF io.marker = "torn"
             THEN failed([versioned EXCEPT !.build_marker = TRUE])
        ELSE [disk |-> [versioned EXCEPT !.build_marker = TRUE],
              tag |-> "Ok", v |-> "none"]

(* BuildOrchestrator::build_render_fabric: create_dir_all, cmake configure, *)
(* cmake build                                                              *)
FabricRuns == [mkdir : BOOLEAN, configure : ChildRuns, build : ChildRuns]

build_render_fabric(in) ==
    IF ~in.mkdir THEN [tag |-> "Err", v |-> "filesystem"]
    ELSE IF in.configure # "success" THEN [tag |-> "Err", v |-> "environment"]
    ELSE IF in.build # "success" THEN [tag |-> "Err", v |-> "environment"]
    ELSE [tag |-> "Ok", v |-> "none"]

(* BuildOrchestrator::run_validation_tests and run_test_exe: a test         *)
(* executable that exits with a failure status is only warned about.        *)
run_validation_tests(child) ==
    IF child \in {"not_found", "spawn_failed"}
    THEN [tag |-> "Err", v |-> "environment"]
    ELSE [tag |-> "Ok", v |-> "none"]

bdisk == [build_marker |-> build_marker, version_file |-> version_file,
          VERSION |-> source_file]

SetBuildDisk(d) ==
    /\ build_marker' = d.build_marker
    /\ version_file' = d.version_file
    /\ source_file' = d.VERSION

(* The build orchestrator's variables before the first build. *)
InitBuildVars ==
    /\ force_rebuild = FALSE
    /\ build_marker = FALSE
    /\ version_file = Missing
    /\ source_file = Missing
    /\ bpc = "idle"
    /\ bret = BuildRet("none", "Ok", "none")
    /\ rebuild = "none"
    /\ built = FALSE

-----------------------------------------------------------------------------
(* The dependency manager (launcher/src/dependencies.rs).                   *)
(*                                                                          *)
(* The machine is the set of dependencies a check would find on it.  A      *)
(* check_all result is the function from each name to its `installed`       *)
(* field; the version and path fields are only printed.                     *)

(* check_all: the names of the records, in the order of the vector *)
DepNames == <<"Visual Studio Build Tools", "Rust", "Vulkan SDK", "Tracy Profiler",
              "O3DE SDK", "CMake">>

Deps == {DepNames[i] : i \in DOMAIN DepNames}

(* DependencyManager::check_all on machine env *)
check_all(env) == [d \in Deps |-> d \in env]

(* deps.iter().filter(|d| !d.installed), names in order *)
not_installed(deps) == SelectSeq(DepNames, LAMBDA d : ~deps[d])

(* the names install_missing has an installation procedure for: the arm of  *)
(* "CMake" only logs a warning                                              *)
Installable == Deps \ {"CMake"}

(* How an installation procedure ends: Ok with the dependency found by the  *)
(* next check, Ok without (an installer that asks for a reboot, a source    *)
(* tree without built libraries), or Err.                                   *)
InstallOutcomes == {"installed", "not_found_after", "failed"}

(* how each procedure install_missing may invoke on machine env would end *)
InstallRuns(env) == [Installable \ env -> InstallOutcomes]

RECURSIVE install_from(_, _, _, _)
(* the loop of install_missing over todo, the records still to visit *)
install_from(env, todo, how, invoked) ==
    IF todo = <<>> THEN [env |-> env, tag |-> "Ok", invoked |-> invoked]
    ELSE LET dep == Head(todo)
         IN  IF dep \notin Installable
             THEN install_from(env, Tail(todo), how, invoked)
             ELSE IF how[dep] = "failed"
             THEN [env |-> env, tag |-> "Err", invoked |-> invoked \cup {dep}]
             ELSE install_from(IF how[dep] = "installed" THEN env \cup {dep} ELSE env,
                               Tail(todo), how, invoked \cup {dep})

(* DependencyManager::install_missing(&deps) on machine env; how: how each  *)
(* installation procedure would end                                         *)
install_missing(env, deps, how) == install_from(env, not_installed(deps), how, {})

(* What run_dependency_audit did and returned: the machine it leaves, the   *)
(* result, the names the error carries, the records the first check found   *)
(* missing, the procedures invoked, whether install_missing was called and  *)
(* whether the second check was made.                                       *)
AuditResult(env, tag, v, names, missing, invoked, installing, rechecked) ==
    [env |-> env, tag |-> tag, v |-> v, names |-> names, missing |-> missing,
     invoked |-> invoked, installing |-> installing, rechecked |-> rechecked]

(* A bug run_dependency_audit could have: the second check is left out. *)
dependency_audit_no_recheck(env, dry, how) ==
    LET deps == check_all(env)
        missing == not_installed(deps)
    IN  IF missing = <<>> \/ dry
        THEN AuditResult(env, "Ok", "none", <<>>, missing, {}, FALSE, FALSE)
        ELSE LET r == install_missing(env, deps, how)
             IN  IF r.tag = "Err"
                 THEN AuditResult(r.env, "Err", "install_failed", <<>>, missing,
                                  r.invoked, TRUE, FALSE)
                 ELSE AuditResult(r.env, "Ok", "none", <<>>, missing, r.invoked,
                                  TRUE, FALSE)

(* run_dependency_audit(config, dry_run) of main.rs on machine env *)
dependency_audit(env, dry, how) ==
    LET deps == check_all(env)
        missing == not_installed(deps)
    IN  IF missing = <<>>
        THEN AuditResult(env, "Ok", "none", <<>>, missing, {}, FALSE, FALSE)
        ELSE IF dry
        THEN AuditResult(env, "Ok", "none", <<>>, missing, {}, FALSE, FALSE)
        ELSE LET r == install_missing(env, deps, how)
                 still_missing == not_installed(check_all(r.env))
             IN  IF r.tag = "Err"
                 THEN AuditResult(r.env, "Err", "install_failed", <<>>, missing,
                                  r.invoked, TRUE, FALSE)
                 ELSE IF still_missing # <<>>
                 THEN AuditResult(r.env, "Err", "still_missing", still_missing,
                                  missing, r.invoked, TRUE, TRUE)
                 ELSE AuditResult(r.env, "Ok", "none", <<>>, missing, r.invoked,
                                  TRUE, TRUE)

NoAudit == AuditResult({}, "Ok", "none", <<>>, <<>>, {}, FALSE, FALSE)

(* The dependency manager's variables before the first audit: a machine     *)
(* with nothing installed.                                                  *)
InitDepVars ==
    /\ present = {}
    /\ dpc = "idle"
    /\ audit = NoAudit

InitToolVars ==
    /\ InitBuildVars
    /\ InitDepVars

-----------------------------------------------------------------------------
(* SpecSM: a StateMachine object and its callers. *)

InitSM ==
    /\ file \in FileContents
    /\ cur = LSInit
    /\ ret = Ret("none", "Ok", LSInit)
    /\ pc = "stopped"
    /\ result = "none"
    /\ executed = <<>>
    /\ lastDone = None
    /\ loaded = LSInit
    /\ startFile = file
    /\ updateChecked = FALSE
    /\ effects = {}
    /\ exit = "none"
    /\ code = None
    /\ prevExit = "none"
    /\ prevErr = "none"
    /\ err = "none"
    /\ dry_run = FALSE
    /\ skip_update = FALSE
    /\ InitUpdVars
    /\ InitSyncVars
    /\ InitToolVars

Construct ==
    /\ pc = "stopped"
    /\ new
    /\ pc' = "api"
    /\ UNCHANGED <<runVars, compVars>>

CallTransition ==
    /\ pc = "api"
    /\ \E w \in WriteOutcomes : transition(w)
    /\ UNCHANGED <<pc, runVars, compVars>>

CallFail ==
    /\ pc = "api"
    /\ \E w \in WriteOutcomes : fail(w)
    /\ UNCHANGED <<pc, runVars, compVars>>

CallReset ==
    /\ pc = "api"
    /\ \E w \in WriteOutcomes : reset(w)
    /\ UNCHANGED <<pc, runVars, compVars>>

CallSetState ==
    /\ pc = "api"
    /\ \E s \in LauncherState, w \in WriteOutcomes : set_state(s, w)
    /\ UNCHANGED <<pc, runVars, compVars>>

CallClearSavedState ==
    /\ pc = "api"
    /\ \E removed \in BOOLEAN : clear_saved_state(removed)
    /\ UNCHANGED <<pc, runVars, compVars>>

(* The object goes out of scope; the file stays. *)
Drop ==
    /\ pc = "api"
    /\ pc' = "stopped"
    /\ ret' = Ret("none", "Ok", cur)
    /\ UNCHANGED <<file, cur, runVars, compVars>>

NextSM ==
    \/ Construct
    \/ CallTransition
    \/ CallFail
    \/ CallReset
    \/ CallSetState
    \/ CallClearSavedState
    \/ Drop

SpecSM == InitSM /\ [][NextSM]_vars

-----------------------------------------------------------------------------
(* SpecUpd: run_self_update (main.rs), one Updater call per step.           *)
(*                                                                          *)
(* upc: "idle" run_self_update is not running; "checked" check_for_update   *)
(* returned Some; "verified" download_and_verify returned Ok; "applied"     *)
(* apply_update returned Ok; "returned" run_self_update returned; "exited"  *)
(* request_restart ended the process.                                       *)

smVars == <<file, cur, ret, pc>>

(* run_self_update up to the match on check_for_update *)
U_CheckForUpdate ==
    /\ upc = "idle"
    /\ IF skip_update
       THEN /\ resp' = NoResponse
            /\ info' = None
            /\ uret' = Ret("run_self_update", "Ok", "")
            /\ upc' = "returned"
            /\ uin' = NoInput
       ELSE \E r \in VersionResponses :
               LET c == check_for_update(LAUNCHER_VERSION, r)
               IN  /\ resp' = r
                   /\ info' = c.info
                   /\ uret' = Ret("check_for_update", c.tag, c.v)
                   /\ upc' = IF c.tag = "OkSome" THEN "checked" ELSE "returned"
                   /\ uin' = NoInput
    /\ UNCHANGED <<target, backup, temp, smVars, runVars, syncVars, toolVars>>

(* updater.download_and_verify(&temp_path, &update_info.checksum).await? *)
U_DownloadAndVerify ==
    /\ upc = "checked"
    /\ \E in \in VerifyInputs :
          LET r == download_and_verify(disk, info[1].checksum, in)
          IN  /\ SetDisk(r.disk)
              /\ uret' = Ret("download_and_verify", r.tag, r.v)
              /\ uin' = in
              /\ upc' = IF r.tag = "Ok" THEN "verified" ELSE "returned"
    /\ UNCHANGED <<info, resp, smVars, runVars, syncVars, toolVars>>

(* std::env::current_exe()?; Updater::apply_update(&temp_path, &current_exe)? *)
U_ApplyUpdate ==
    /\ upc = "verified"
    /\ \/ /\ uret' = Ret("current_exe", "Err", "filesystem")
          /\ upc' = "returned"
          /\ UNCHANGED <<target, backup, temp, uin>>
       \/ \E fs \in FsOutcomes :
             LET r == apply_update(disk, fs)
             IN  /\ SetDisk(r.disk)
                 /\ uret' = Ret("apply_update", r.tag, r.v)
                 /\ uin' = fs
                 /\ upc' = IF r.tag = "Ok" THEN "applied" ELSE "returned"
    /\ UNCHANGED <<info, resp, smVars, runVars, syncVars, toolVars>>

(* The process is killed inside apply_update, after its first or after its  *)
(* second rename.                                                           *)
U_KillInApply ==
    /\ upc = "verified"
    /\ \E at \in KillPointsOfApply :
          /\ SetDisk(apply_update_killed(disk, at))
          /\ uret' = Ret("killed_in_apply_update", "Killed", at)
    /\ upc' = "exited"
    /\ UNCHANGED <<uin, info, resp, smVars, runVars, syncVars, toolVars>>

(* Updater::request_restart(): std::process::exit(0) *)
U_RequestRestart ==
    /\ upc = "applied"
    /\ upc' = "exited"
    /\ UNCHANGED <<target, backup, temp, info, resp, uret, uin, smVars, runVars, syncVars, toolVars>>

(* A later invocation reaches the SelfUpdate stage; the files stay.  There  *)
(* is none without an executable at current_exe.                            *)
U_Again ==
    /\ upc \in {"returned", "exited"}
    /\ target # Missing
    /\ upc' = "idle"
    /\ UNCHANGED <<target, backup, temp, info, resp, uret, uin, smVars, runVars, syncVars, toolVars>>

InitUpd ==
    /\ InitUpdVars
    /\ InitSyncVars
    /\ InitToolVars
    /\ file = Absent
    /\ cur = LSInit
    /\ ret = Ret("none", "Ok", LSInit)
    /\ pc = "stopped"
    /\ result = "none"
    /\ executed = <<>>
    /\ lastDone = None
    /\ loaded = LSInit
    /\ startFile = Absent
    /\ updateChecked = FALSE
    /\ effects = {}
    /\ exit = "none"
    /\ code = None
    /\ prevExit = "none"
    /\ prevErr = "none"
    /\ err = "none"
    /\ dry_run = FALSE
    /\ skip_update \in BOOLEAN

NextUpd ==
    \/ U_CheckForUpdate
    \/ U_DownloadAndVerify
    \/ U_ApplyUpdate
    \/ U_KillInApply
    \/ U_RequestRestart
    \/ U_Again

SpecUpd == InitUpd /\ [][NextUpd]_vars

-----------------------------------------------------------------------------
(* SpecBuild: run_build of main.rs call by call on the build cache. *)

notBuildVars == <<smVars, runVars, updVars, syncVars, depVars>>

BuildFails(call, kind) ==
    /\ bret' = BuildRet(call, "Err", kind)
    /\ bpc' = "returned"

(* orchestrator.needs_rebuild()? *)
B_NeedsRebuild ==
    /\ bpc = "idle"
    /\ \E io \in ReadOutcomes :
         LET r == needs_rebuild(bdisk, force_rebuild, io)
         IN  IF r.tag = "Err"
             THEN /\ BuildFails("needs_rebuild", r.v)
                  /\ rebuild' = "err"
             ELSE /\ bret' = BuildRet("needs_rebuild", "Ok", "none")
                  /\ rebuild' = IF r.v THEN "true" ELSE "false"
                  /\ bpc' = IF r.v THEN "build" ELSE "fabric"
    /\ built' = FALSE
    /\ UNCHANGED <<force_rebuild, build_marker, version_file, source_file, notBuildVars>>

(* A bug run_build of main.rs could have: the result of                     *)
(* orchestrator.run_build() is dropped and the version is saved anyway.     *)
B_RunBuild_unchecked ==
    /\ bpc = "build"
    /\ \E child \in ChildRuns :
         LET r == run_build_script(child)
         IN  /\ bret' = BuildRet("run_build", r.tag, r.v)
             /\ built' = (r.tag = "Ok")
             /\ bpc' = "save"
    /\ UNCHANGED <<force_rebuild, build_marker, version_file, source_file, rebuild,
                   notBuildVars>>

(* orchestrator.run_build()? *)
B_RunBuild ==
    /\ bpc = "build"
    /\ \E child \in ChildRuns :
         LET r == run_build_script(child)
         IN  IF r.tag = "Err"
             THEN BuildFails("run_build", r.v) /\ UNCHANGED built
             ELSE /\ bret' = BuildRet("run_build", "Ok", "none")
                  /\ built' = TRUE
                  /\ bpc' = "save"
    /\ UNCHANGED <<force_rebuild, build_marker, version_file, source_file, rebuild,
                   notBuildVars>>

(* orchestrator.save_build_version()? *)
B_SaveBuildVersion ==
    /\ bpc = "save"
    /\ \E io \in SaveOutcomes :
         LET r == save_build_version(bdisk, io)
         IN  /\ SetBuildDisk(r.disk)
             /\ IF r.tag = "Err"
                THEN BuildFails("save_build_version", r.v)
                ELSE /\ bret' = BuildRet("save_build_version", "Ok", "none")
                     /\ bpc' = "fabric"
    /\ UNCHANGED <<force_rebuild, rebuild, built, notBuildVars>>

(* orchestrator.build_render_fabric()? *)
B_BuildRenderFabric ==
    /\ bpc = "fabric"
    /\ \E in \in FabricRuns :
         LET r == build_render_fabric(in)
         IN  IF r.tag = "Err"
             THEN BuildFails("build_render_fabric", r.v)
             ELSE /\ bret' = BuildRet("build_render_fabric", "Ok", "none")
                  /\ bpc' = "tests"
    /\ UNCHANGED <<force_rebuild, build_marker, version_file, source_file, rebuild,
                   built, notBuildVars>>

(* orchestrator.run_validation_tests()?; Ok(()) *)
B_RunValidationTests ==
    /\ bpc = "tests"
    /\ \E child \in ChildRuns :
         LET r == run_validation_tests(child)
         IN  IF r.tag = "Err"
             THEN BuildFails("run_validation_tests", r.v)
             ELSE /\ bret' = BuildRet("run_build_stage", "Ok", "none")
                  /\ bpc' = "returned"
    /\ UNCHANGED <<force_rebuild, build_marker, version_file, source_file, rebuild,
                   built, notBuildVars>>

(* A later invocation reaches the Build stage: the files stay, the sync may *)
(* have installed another VERSION, the configuration may have changed.      *)
B_Again ==
    /\ bpc = "returned"
    /\ bpc' = "idle"
    /\ source_file' \in {source_file} \cup VersionTexts
    /\ force_rebuild' \in BOOLEAN
    /\ rebuild' = "none"
    /\ built' = FALSE
    /\ UNCHANGED <<build_marker, version_file, bret, notBuildVars>>

InitBuild ==
    /\ force_rebuild \in BOOLEAN
    /\ build_marker \in BOOLEAN
    /\ version_file \in {Missing, TornFile} \cup VersionTexts
    /\ source_file \in {Missing} \cup VersionTexts
    /\ bpc = "idle"
    /\ bret = BuildRet("none", "Ok", "none")
    /\ rebuild = "none"
    /\ built = FALSE
    /\ InitDepVars
    /\ InitUpdVars
    /\ InitSyncVars
    /\ file = Absent
    /\ cur = LSInit
    /\ ret = Ret("none", "Ok", LSInit)
    /\ pc = "stopped"
    /\ result = "none"
    /\ executed = <<>>
    /\ lastDone = None
    /\ loaded = LSInit
    /\ startFile = Absent
    /\ updateChecked = FALSE
    /\ effects = {}
    /\ exit = "none"
    /\ code = None
    /\ prevExit = "none"
    /\ prevErr = "none"
    /\ err = "none"
    /\ dry_run = FALSE
    /\ skip_update = FALSE

NextBuild ==
    \/ B_NeedsRebuild
    \/ B_RunBuild
    \/ B_SaveBuildVersion
    \/ B_BuildRenderFabric
    \/ B_RunValidationTests
    \/ B_Again

SpecBuild == InitBuild /\ [][NextBuild]_vars

-----------------------------------------------------------------------------
(* SpecDeps: the DependencyAudit stage on a machine whose dependencies      *)
(* come and go between invocations.                                         *)

notDepVars == <<smVars, updVars, syncVars, buildVars>>

(* run_dependency_audit(&config, args.dry_run) *)
D_Audit ==
    /\ dpc = "idle"
    /\ \E how \in InstallRuns(present) :
         LET r == dependency_audit(present, dry_run, how)
         IN  /\ audit' = r
             /\ present' = r.env
    /\ dpc' = "returned"
    /\ UNCHANGED <<runVars, notDepVars>>

(* A later invocation reaches the DependencyAudit stage, on the machine as  *)
(* the last one left it. *)
D_Again ==
    /\ dpc = "returned"
    /\ dpc' = "idle"
    /\ UNCHANGED <<present, audit, runVars, notDepVars>>

(* Between invocations the user installs or removes a dependency, and the   *)
(* next invocation is given --dry-run or not.                               *)
D_Machine ==
    /\ dpc = "returned"
    /\ dpc' = "idle"
    /\ \E d \in Deps : present' = IF d \in present THEN present \ {d}
                                                   ELSE present \cup {d}
    /\ dry_run' \in BOOLEAN
    /\ audit' = NoAudit
    /\ UNCHANGED <<result, executed, lastDone, loaded, startFile,
                   updateChecked, effects, exit, code, prevExit, prevErr, err, skip_update,
                   notDepVars>>

InitDeps ==
    /\ present \in SUBSET Deps
    /\ dpc = "idle"
    /\ audit = NoAudit
    /\ dry_run \in BOOLEAN
    /\ InitBuildVars
    /\ InitUpdVars
    /\ InitSyncVars
    /\ file = Absent
    /\ cur = LSInit
    /\ ret = Ret("none", "Ok", LSInit)
    /\ pc = "stopped"
    /\ result = "none"
    /\ executed = <<>>
    /\ lastDone = None
    /\ loaded = LSInit
    /\ startFile = Absent
    /\ updateChecked = FALSE
    /\ effects = {}
    /\ exit = "none"
    /\ code = None
    /\ prevExit = "none"
    /\ prevErr = "none"
    /\ err = "none"
    /\ skip_update = FALSE

NextDeps ==
    \/ D_Audit
    \/ D_Again
    \/ D_Machine

SpecDeps == InitDeps /\ [][NextDeps]_vars

-----------------------------------------------------------------------------
(* SpecSync: run_sync (main.rs), one step per request or loop iteration.    *)
(*                                                                          *)
(* spc: "idle" run_sync is not running; "sync" in the loop of sync_files;   *)
(* "clear", "fetch", "extract" in download_full_archive before the tree is  *)
(* cleared, before the archive is requested, before it is extracted;        *)
(* "returned" run_sync returned.                                            *)
(* why: what sent run_sync to download_full_archive.                        *)

otherVars == <<smVars, runVars, updVars, toolVars>>

SyncFails(call, kind) ==
    /\ sret' = SyncRet(call, "Err", kind, 0)
    /\ spc' = "returned"

(* run_sync: check_server, the test of the engine directory, get_manifest   *)
(* and the create_dir_all at the head of sync_files                         *)
R_Begin ==
    /\ spc = "idle"
    /\ UNCHANGED <<got, requested, downloaded, synced_count>>
    /\ \E server \in {"ok"} \cup FailedRequests, listable \in BOOLEAN :
          IF server # "ok"
          THEN /\ SyncFails("check_server", RequestError(server))
               /\ UNCHANGED <<manifest, pending, why, engine_dir>>
          ELSE IF ~engine_dir
          THEN /\ why' = "no_local_files"
               /\ spc' = "clear"
               /\ sret' = SyncRet("check_server", "Ok", "", 0)
               /\ UNCHANGED <<manifest, pending, engine_dir>>
          ELSE IF ~listable
          THEN /\ SyncFails("run_sync", "filesystem")
               /\ UNCHANGED <<manifest, pending, why, engine_dir>>
          ELSE IF Files(tree) = {}
          THEN /\ why' = "no_local_files"
               /\ spc' = "clear"
               /\ sret' = SyncRet("check_server", "Ok", "", 0)
               /\ UNCHANGED <<manifest, pending, engine_dir>>
          ELSE \/ \E k \in FailedRequests :
                    /\ why' = "manifest_failed"
                    /\ spc' = "clear"
                    /\ sret' = SyncRet("get_manifest", "Err", RequestError(k), 0)
                    /\ UNCHANGED <<manifest, pending, engine_dir>>
               \/ \E m \in Manifests, mkdir \in BOOLEAN :
                    /\ manifest' = m
                    /\ why' = "none"
                    /\ UNCHANGED engine_dir
                    /\ IF mkdir
                       THEN /\ pending' = Entries(m)
                            /\ spc' = "sync"
                            /\ sret' = SyncRet("get_manifest", "Ok", "", 0)
                       ELSE /\ SyncFails("sync_files", "filesystem")
                            /\ UNCHANGED pending
    /\ UNCHANGED <<tree, prevManifest, otherVars>>

(* sync_files: one iteration of the loop, on the entry p; a HashMap is      *)
(* iterated in no particular order                                          *)
S_Entry ==
    /\ spc = "sync"
    /\ \E p \in pending, in \in EntryInputs :
          LET ns == file_needs_sync(tree[p], manifest[p], in)
              df == download_file(tree, p, manifest[p], in)
          IN  /\ pending' = pending \ {p}
              /\ IF ns.tag = "Err"
                 THEN /\ SyncFails("sync_files", "filesystem")
                      /\ got' = NothingReceived
                      /\ UNCHANGED <<tree, synced_count, requested, downloaded>>
                 ELSE IF ~ns.needs
                 THEN /\ sret' = SyncRet("file_needs_sync", "Ok", "", 0)
                      /\ got' = NothingReceived
                      /\ UNCHANGED <<tree, spc, synced_count, requested, downloaded>>
                 ELSE /\ requested' = requested \cup {p}
                      /\ got' = IF in.mkdir THEN ReceivedFile(in.dl)
                                            ELSE NothingReceived
                      /\ tree' = df.tree
                      /\ IF df.tag = "Err"
                         THEN /\ SyncFails("sync_files", df.v)
                              /\ UNCHANGED <<synced_count, downloaded>>
                         ELSE /\ sret' = SyncRet("download_file", "Ok", "", 0)
                              /\ synced_count' = synced_count + 1
                              /\ downloaded' = downloaded \cup {p}
                              /\ UNCHANGED spc
    /\ UNCHANGED <<engine_dir, manifest, why, prevManifest, otherVars>>

(* sync_files: the loop is over, Ok(synced_count) *)
S_Return ==
    /\ spc = "sync"
    /\ pending = {}
    /\ sret' = SyncRet("sync_files", "Ok", "", synced_count)
    /\ spc' = "returned"
    /\ UNCHANGED <<engine_dir, tree, manifest, pending, synced_count, got, why,
                   requested, downloaded, prevManifest, otherVars>>

(* download_full_archive: if engine_dir.exists() { remove_dir_all }; a      *)
(* failure is logged and the function goes on                               *)
A_Clear ==
    /\ spc = "clear"
    /\ spc' = "fetch"
    /\ IF engine_dir
       THEN \/ tree' = EmptyTree /\ engine_dir' = FALSE
            \/ \E gone \in SUBSET Files(tree) :
                  tree' = remove_dir_all(tree, gone) /\ UNCHANGED engine_dir
       ELSE UNCHANGED <<tree, engine_dir>>
    /\ UNCHANGED <<manifest, pending, synced_count, sret, got, why, requested,
                   downloaded, prevManifest, otherVars>>

(* download_full_archive: the GET of full.zip, the write of engine.zip,     *)
(* File::open and ZipArchive::new                                           *)
A_Fetch ==
    /\ spc = "fetch"
    /\ \/ \E k \in FailedRequests :
             /\ SyncFails("download_full_archive", RequestError(k))
             /\ UNCHANGED got
       \/ \E body \in Archives \cup {NotZip}, w \in WriteOutcomes, opened \in BOOLEAN :
             /\ got' = ReceivedArchive(body)
             /\ IF w # "written" \/ ~opened
                THEN SyncFails("download_full_archive", "filesystem")
                ELSE IF body = NotZip
                THEN SyncFails("download_full_archive", "archive")
                ELSE spc' = "extract" /\ UNCHANGED sret
    /\ UNCHANGED <<engine_dir, tree, manifest, pending, synced_count, why, requested,
                   downloaded, prevManifest, otherVars>>

(* download_full_archive: archive.extract, remove_file(engine.zip), Ok(())  *)
A_Extract ==
    /\ spc = "extract"
    /\ \/ \E done \in SUBSET Files(got.archive) :
             /\ done # Files(got.archive)
             /\ tree' = extract(tree, got.archive, done)
             /\ engine_dir' = (engine_dir \/ done # {})
             /\ SyncFails("download_full_archive", "filesystem")
       \/ /\ tree' = extract(tree, got.archive, Files(got.archive))
          /\ engine_dir' = TRUE
          /\ \E removed \in BOOLEAN :
                IF removed
                THEN /\ sret' = SyncRet("download_full_archive", "Ok", "", 0)
                     /\ spc' = "returned"
                ELSE SyncFails("download_full_archive", "filesystem")
    /\ UNCHANGED <<manifest, pending, synced_count, got, why, requested, downloaded,
                   prevManifest, otherVars>>

(* A later invocation reaches the Sync stage; the files stay. *)
R_Again ==
    /\ spc = "returned"
    /\ spc' = "idle"
    /\ manifest' = [p \in ManifestPaths |-> NoEntry]
    /\ pending' = {}
    /\ synced_count' = 0
    /\ got' = NothingReceived
    /\ why' = "none"
    /\ requested' = {}
    /\ downloaded' = {}
    /\ prevManifest' = IF sret.call = "sync_files" /\ sret.tag = "Ok"
                       THEN Some(manifest)
                       ELSE None
    /\ UNCHANGED <<engine_dir, tree, sret, otherVars>>

InitSync ==
    /\ InitSyncVars
    /\ InitToolVars
    /\ InitUpdVars
    /\ file = Absent
    /\ cur = LSInit
    /\ ret = Ret("none", "Ok", LSInit)
    /\ pc = "stopped"
    /\ result = "none"
    /\ executed = <<>>
    /\ lastDone = None
    /\ loaded = LSInit
    /\ startFile = Absent
    /\ updateChecked = FALSE
    /\ effects = {}
    /\ exit = "none"
    /\ code = None
    /\ prevExit = "none"
    /\ prevErr = "none"
    /\ err = "none"
    /\ dry_run = FALSE
    /\ skip_update = FALSE

NextSync ==
    \/ R_Begin
    \/ S_Entry
    \/ S_Return
    \/ A_Clear
    \/ A_Fetch
    \/ A_Extract
    \/ R_Again

SpecSync == InitSync /\ [][NextSync]_vars

(* run_self_update from its call to its return or the exit of the process,  *)
(* from any files and with any inputs: the response received, what          *)
(* check_for_update returned and the last Updater call.                     *)
SelfUpdateRunsOf(current_version) ==
    UNION {
        LET c == check_for_update(current_version, r)
        IN  IF c.tag # "OkSome"
            THEN {[resp |-> r, info |-> c.info,
                   uret |-> Ret("check_for_update", c.tag, c.v)]}
            ELSE UNION {
                    LET dv == download_and_verify(d, c.info[1].checksum, in)
                    IN  IF dv.tag = "Err"
                        THEN {[resp |-> r, info |-> c.info,
                               uret |-> Ret("download_and_verify", "Err", dv.v)]}
                        ELSE {[resp |-> r, info |-> c.info,
                               uret |-> Ret("current_exe", "Err", "filesystem")]}
                             \cup {[resp |-> r, info |-> c.info,
                                    uret |-> Ret("apply_update",
                                                 apply_update(dv.disk, fs).tag,
                                                 apply_update(dv.disk, fs).v)] :
                                     fs \in FsOutcomes}
                    : d \in Disks, in \in VerifyInputs}
        : r \in VersionResponses}

(* The runs of the executable at current_exe. *)
SelfUpdateRunsBy == [v \in Versions \cup {""} |-> SelfUpdateRunsOf(v)]

SelfUpdateRuns == SelfUpdateRunsBy[LAUNCHER_VERSION]

-----------------------------------------------------------------------------
(* Spec: invocations of the launcher.                                       *)
(*                                                                          *)
(* pc: "stopped" no process; "loaded" the state machine is constructed;     *)
(* "loop" at the head of the loop; "action" a stage action is running;      *)
(* "transition" / "fail" the action returned Ok / Err and the state machine *)
(* has not been told yet; "clear" the loop was left by break.               *)

ActionStages == {LSInit, LSSelfUpdate, LSDependencyAudit, LSSync, LSBuild, LSLaunch}

(* What a stage action can return: "ok", or the kind of error (section 7's  *)
(* taxonomy; "timeout" is a network request running into the client's       *)
(* timeout), or for SelfUpdate "restart": the update was applied and        *)
(* request_restart ended the process.  Spec does not follow the launcher's  *)
(* own files (SpecUpd does): a self-update is any member of SelfUpdateRuns. *)

(* run_init: create_dir_all three times *)
run_init == {"ok", "filesystem"}

(* run_self_update *)
run_self_update ==
    IF skip_update THEN {"ok"}
    ELSE {UpdOutcome(r.uret) : r \in SelfUpdateRuns}

(* run_dependency_audit on any machine, whatever the installers do; dry is  *)
(* args.dry_run                                                             *)
AuditRuns ==
    [dry \in BOOLEAN |->
        UNION {{dependency_audit(env, dry, how) : how \in InstallRuns(env)} :
                 env \in SUBSET Deps}]

(* The error of an audit, by kind: an installation procedure fails on a     *)
(* request, a file operation or the installer; dependencies still missing   *)
(* are an environment error.                                                *)
AuditOutcomes(a) ==
    IF a.tag = "Ok" THEN {"ok"}
    ELSE IF a.v = "still_missing" THEN {"environment"}
    ELSE {"timeout", "filesystem", "environment"}

(* run_dependency_audit: in dry-run nothing is installed and nothing fails *)
run_dependency_audit == UNION {AuditOutcomes(a) : a \in AuditRuns[dry_run]}

(* run_sync, or the dry-run arm of the match *)
run_sync ==
    IF dry_run THEN {"ok"} ELSE {"ok", "timeout", "integrity", "filesystem"}

(* run_build, or the dry-run arm of the match *)
run_build ==
    IF dry_run THEN {"ok"} ELSE {"ok", "filesystem", "environment"}

(* run_launch, or the dry-run arm of the match *)
run_launch ==
    IF dry_run THEN {"ok"} ELSE {"ok", "filesystem"}

(* run(): the match on current_state *)
StageOutcomes(s) ==
    CASE s = LSInit -> run_init
      [] s = LSSelfUpdate -> run_self_update
      [] s = LSDependencyAudit -> run_dependency_audit
      [] s = LSSync -> run_sync
      [] s = LSBuild -> run_build
      [] s = LSLaunch -> run_launch

InitRun ==
    /\ InitUpdVars
    /\ InitSyncVars
    /\ InitToolVars
    /\ file = Absent
    /\ cur = LSInit
    /\ ret = Ret("none", "Ok", LSInit)
    /\ pc = "stopped"
    /\ result = "none"
    /\ executed = <<>>
    /\ lastDone = None
    /\ loaded = LSInit
    /\ startFile = Absent
    /\ updateChecked = FALSE
    /\ effects = {}
    /\ exit = "none"
    /\ code = None
    /\ prevExit = "none"
    /\ prevErr = "none"
    /\ err = "none"
    /\ dry_run = FALSE
    /\ skip_update \in BOOLEAN

(* A bug main could have: the error is printed and main returns. *)
ReturnErr_returns(e) ==
    /\ pc' = "stopped"
    /\ exit' = "err"
    /\ code' = Some(0)
    /\ err' = e

(* run() returns Err(e): main prints it and calls std::process::exit(1). *)
ReturnErr(e) ==
    /\ pc' = "stopped"
    /\ exit' = "err"
    /\ code' = Some(1)
    /\ err' = e

(* main() calls run(args); run() up to and including StateMachine::new. *)
Invoke ==
    /\ pc = "stopped"
    /\ target # Missing
    /\ \E d \in BOOLEAN : dry_run' = d
    /\ new
    /\ loaded' = cur'
    /\ startFile' = file
    /\ prevExit' = exit
    /\ prevErr' = err
    /\ exit' = "running"
    /\ code' = None
    /\ err' = "none"
    /\ result' = "none"
    /\ executed' = <<>>
    /\ lastDone' = None
    /\ updateChecked' = FALSE
    /\ effects' = {}
    /\ pc' = "loaded"
    /\ resp' = NoResponse
    /\ info' = None
    /\ uret' = Ret("none", "Ok", "")
    /\ UNCHANGED <<skip_update, target, backup, temp, upc, uin, syncVars, toolVars>>

(* main() returns before it calls run(): --help or -h prints the help,      *)
(* --version or -V the version (help first when both are given), and on     *)
(* Windows a process that is not elevated and starts an elevated one         *)
(* leaves the work to it.  Returning from main is exit code 0.              *)
ReturnsBeforeRun ==
    /\ pc = "stopped"
    /\ target # Missing
    /\ \E help \in BOOLEAN, version \in BOOLEAN, elevating \in BOOLEAN :
          /\ help \/ version \/ elevating
          /\ exit' = IF help THEN "help" ELSE IF version THEN "version"
                     ELSE "elevated"
    /\ code' = Some(0)
    /\ prevExit' = exit
    /\ prevErr' = err
    /\ err' = "none"
    /\ result' = "none"
    /\ executed' = <<>>
    /\ lastDone' = None
    /\ updateChecked' = FALSE
    /\ effects' = {}
    /\ startFile' = file
    /\ resp' = NoResponse
    /\ info' = None
    /\ uret' = Ret("none", "Ok", "")
    /\ UNCHANGED <<file, cur, ret, pc, loaded, dry_run, skip_update, target,
                   backup, temp, upc, uin, syncVars, toolVars>>

(* run() fails before the state machine exists: Config::load, the first    *)
(* create_dir_all calls or logging::init return Err.                        *)
StartupFails ==
    /\ pc = "stopped"
    /\ target # Missing
    /\ prevExit' = exit
    /\ prevErr' = err
    /\ exit' = "err"
    /\ code' = Some(1)
    /\ err' = "startup"
    /\ result' = "none"
    /\ executed' = <<>>
    /\ lastDone' = None
    /\ updateChecked' = FALSE
    /\ effects' = {}
    /\ startFile' = file
    /\ resp' = NoResponse
    /\ info' = None
    /\ uret' = Ret("none", "Ok", "")
    /\ UNCHANGED <<file, cur, ret, pc, loaded, dry_run, skip_update, target,
                   backup, temp, upc, uin, syncVars, toolVars>>

(* A bug run() could have: a loaded Complete is not reset. *)
CheckComplete_no_reset ==
    /\ pc = "loaded"
    /\ pc' = "loop"
    /\ UNCHANGED <<file, cur, ret, exit, code, err>>
    /\ UNCHANGED <<result, executed, lastDone, loaded, startFile, updateChecked, effects,
                   prevExit, prevErr, dry_run, skip_update, compVars>>

(* run(): if state_machine.current() == Complete { state_machine.reset()?; } *)
CheckComplete ==
    /\ pc = "loaded"
    /\ IF current = LSComplete
       THEN \E w \in WriteOutcomes :
              /\ reset(w)
              /\ IF w = "written"
                 THEN pc' = "loop" /\ UNCHANGED <<exit, code, err>>
                 ELSE ReturnErr("state_file")
       ELSE pc' = "loop" /\ UNCHANGED <<file, cur, ret, exit, code, err>>
    /\ UNCHANGED <<result, executed, lastDone, loaded, startFile, updateChecked, effects,
                   prevExit, prevErr, dry_run, skip_update, compVars>>

(* run(): the head of the loop and the match, for a stage with an action *)
Dispatch ==
    /\ pc = "loop"
    /\ current \in ActionStages
    /\ executed' = Append(executed, current)
    /\ pc' = "action"
    /\ UNCHANGED <<file, cur, ret, result, lastDone, loaded, startFile,
                   updateChecked, effects, exit, code, prevExit, prevErr, err, dry_run, skip_update,
                   compVars>>

(* run(): LauncherState::Complete => break *)
BreakAtComplete ==
    /\ pc = "loop"
    /\ current = LSComplete
    /\ pc' = "clear"
    /\ UNCHANGED <<file, cur, ret, result, executed, lastDone, loaded, startFile,
                   updateChecked, effects, exit, code, prevExit, prevErr, err, dry_run, skip_update,
                   compVars>>

(* run(): LauncherState::Failed => { state_machine.reset()?; continue; } *)
ResetFailed ==
    /\ pc = "loop"
    /\ current = LSFailed
    /\ \E w \in WriteOutcomes :
          /\ reset(w)
          /\ IF w = "written"
             THEN pc' = "loop" /\ UNCHANGED <<exit, code, err>>
             ELSE ReturnErr("state_file")
    /\ UNCHANGED <<result, executed, lastDone, loaded, startFile, updateChecked, effects,
                   prevExit, prevErr, dry_run, skip_update, compVars>>

(* What a self-update that ended with the Updater call u did: it wrote the  *)
(* download to launcher_update.exe, it renamed the download over the        *)
(* running executable, it ended the process.                                *)
UpdEffects(u) ==
    IF u.call = "apply_update" /\ u.tag = "Ok"
    THEN {"download_update", "replace_executable", "restart"}
    ELSE IF u.call \in {"download_and_verify", "current_exe", "apply_update"}
    THEN {"download_update"}
    ELSE {}

(* A bug run() could have: the Sync, Build and Launch arms of the match do  *)
(* not test args.dry_run.                                                   *)
ArmEffects_no_dry_run ==
    CASE current = LSSync -> {"sync"}
      [] current = LSBuild -> {"build"}
      [] current = LSLaunch -> {"launch"}
      [] OTHER -> {}

(* run(): the arms of Sync, Build and Launch call run_sync, run_build and   *)
(* run_launch unless args.dry_run is set                                    *)
ArmEffects ==
    IF dry_run THEN {}
    ELSE CASE current = LSSync -> {"sync"}
           [] current = LSBuild -> {"build"}
           [] current = LSLaunch -> {"launch"}
           [] OTHER -> {}

(* What the stage action did to the components: a self-update that was not  *)
(* skipped is a member of SelfUpdateRuns with outcome o, a dependency audit *)
(* a member of AuditRuns.                                                   *)
StageEffect(o) ==
    /\ IF current = LSSelfUpdate /\ ~skip_update
       THEN \E r \in SelfUpdateRuns :
               /\ UpdOutcome(r.uret) = o
               /\ resp' = r.resp
               /\ info' = r.info
               /\ uret' = r.uret
               /\ effects' = effects \cup UpdEffects(r.uret)
       ELSE /\ UNCHANGED <<resp, info, uret>>
            /\ IF current = LSDependencyAudit
               THEN \E a \in AuditRuns[dry_run] :
                       /\ o \in AuditOutcomes(a)
                       /\ effects' = effects \cup (IF a.installing THEN {"install"}
                                                                    ELSE {})
               ELSE effects' = effects \cup ArmEffects

(* The stage action returns; its value becomes `result`. *)
StageAction ==
    /\ pc = "action"
    /\ \E o \in StageOutcomes(current) :
          /\ StageEffect(o)
          /\ IF o = "restart"
             THEN /\ pc' = "stopped"               \* std::process::exit(0)
                  /\ exit' = "restart"
                  /\ code' = Some(0)
                  /\ updateChecked' = TRUE
                  /\ UNCHANGED <<result, lastDone>>
             ELSE /\ result' = o
                  /\ pc' = IF o = "ok" THEN "transition" ELSE "fail"
                  /\ lastDone' = IF o = "ok" THEN Some(current) ELSE lastDone
                  /\ updateChecked' = (updateChecked
                                       \/ (o = "ok" /\ current = LSSelfUpdate /\ ~skip_update))
                  /\ UNCHANGED <<exit, code>>
    /\ UNCHANGED <<file, cur, ret, executed, loaded, startFile, prevExit, prevErr,
                   err, dry_run, skip_update, target, backup, temp, upc, uin,
                   syncVars, toolVars>>

(* A bug run() could have: is_some() for is_none(), so the loop is left     *)
(* after the first transition and goes on after the last stage.             *)
TransitionStep_breaks_on_some ==
    /\ pc = "transition"
    /\ \E w \in WriteOutcomes : transition(w)
    /\ IF ret'.tag = "Err" THEN ReturnErr("state_file")
       ELSE /\ pc' = IF ret'.tag = "OkNone" THEN "loop" ELSE "clear"
            /\ UNCHANGED <<exit, code, err>>
    /\ UNCHANGED <<result, executed, lastDone, loaded, startFile, updateChecked, effects,
                   prevExit, prevErr, dry_run, skip_update, compVars>>

(* run(): Ok(()) => { if state_machine.transition()?.is_none() { break; } } *)
TransitionStep ==
    /\ pc = "transition"
    /\ \E w \in WriteOutcomes : transition(w)
    /\ IF ret'.tag = "Err" THEN ReturnErr("state_file")
       ELSE /\ pc' = IF ret'.tag = "OkNone" THEN "clear" ELSE "loop"
            /\ UNCHANGED <<exit, code, err>>
    /\ UNCHANGED <<result, executed, lastDone, loaded, startFile, updateChecked, effects,
                   prevExit, prevErr, dry_run, skip_update, compVars>>

(* A bug run() could have: a failed stage is run again at once. *)
FailStep_retries ==
    /\ pc = "fail"
    /\ pc' = "loop"
    /\ UNCHANGED <<file, cur, ret, exit, code, err>>
    /\ UNCHANGED <<result, executed, lastDone, loaded, startFile, updateChecked, effects,
                   prevExit, prevErr, dry_run, skip_update, compVars>>

(* run(): Err(e) => { state_machine.fail()?; return Err(e); } *)
FailStep ==
    /\ pc = "fail"
    /\ \E w \in WriteOutcomes : fail(w)
    /\ IF ret'.tag = "Err" THEN ReturnErr("state_file") ELSE ReturnErr(result)
    /\ UNCHANGED <<result, executed, lastDone, loaded, startFile, updateChecked, effects,
                   prevExit, prevErr, dry_run, skip_update, compVars>>

(* run(): state_machine.clear_saved_state()?; ... Ok(()) *)
ClearStep ==
    /\ pc = "clear"
    /\ \E removed \in BOOLEAN : clear_saved_state(removed)
    /\ IF ret'.tag = "Err" THEN ReturnErr("state_file")
       ELSE pc' = "stopped" /\ exit' = "ok" /\ code' = Some(0) /\ UNCHANGED err
    /\ UNCHANGED <<result, executed, lastDone, loaded, startFile, updateChecked, effects,
                   prevExit, prevErr, dry_run, skip_update, compVars>>

(* The next step of run() writes the stage file. *)
WritePending ==
    \/ pc = "loaded" /\ current = LSComplete
    \/ pc = "loop" /\ current = LSFailed
    \/ pc \in {"transition", "fail"}

(* The process is killed: between two steps, or inside the std::fs::write   *)
(* of the next step, which truncates the file before it writes.             *)
Kill ==
    /\ pc # "stopped"
    /\ pc' = "stopped"
    /\ exit' = "killed"
    /\ code' = None
    /\ file' \in (IF WritePending THEN {file, NotJson} ELSE {file})
    /\ UNCHANGED <<cur, ret, result, executed, lastDone, loaded, startFile,
                   updateChecked, effects, prevExit, prevErr, err, dry_run, skip_update, compVars>>

Next ==
    \/ Invoke
    \/ ReturnsBeforeRun
    \/ StartupFails
    \/ CheckComplete
    \/ Dispatch
    \/ BreakAtComplete
    \/ ResetFailed
    \/ StageAction
    \/ TransitionStep
    \/ FailStep
    \/ ClearStep
    \/ Kill

Spec == InitRun /\ [][Next]_vars

-----------------------------------------------------------------------------
(* SpecRecover: a kill and the invocation after it.                         *)
(*                                                                          *)
(* The invocation that follows a killed one is not killed.  A started       *)
(* process takes its next step, and the launcher is started again while     *)
(* its executable exists: weak fairness of the steps of run() and of        *)
(* Invoke.                                                                  *)

(* The process is killed between two steps of run(). *)
KillOnce ==
    /\ prevExit # "killed"
    /\ Kill

(* The process is killed inside apply_update, which run_self_update calls   *)
(* after download_and_verify returned Ok and current_exe gave target_path.  *)
KillInApply ==
    /\ prevExit # "killed"
    /\ pc = "action"
    /\ current = LSSelfUpdate
    /\ ~skip_update
    /\ \E r \in VersionResponses, in \in VerifyInputs, at \in KillPointsOfApply :
          LET c == check_for_update(LAUNCHER_VERSION, r)
          IN  /\ c.tag = "OkSome"
              /\ LET dv == download_and_verify(disk, c.info[1].checksum, in)
                 IN  /\ dv.tag = "Ok"
                     /\ SetDisk(apply_update_killed(dv.disk, at))
    /\ pc' = "stopped"
    /\ exit' = "killed"
    /\ code' = None
    /\ UNCHANGED <<file, cur, ret, result, executed, lastDone, loaded, startFile,
                   updateChecked, effects, prevExit, prevErr, err, dry_run, skip_update,
                   upc, info, resp, uret, uin, syncVars, toolVars>>

RunStep ==
    \/ CheckComplete
    \/ Dispatch
    \/ BreakAtComplete
    \/ ResetFailed
    \/ StageAction
    \/ TransitionStep
    \/ FailStep
    \/ ClearStep

NextRecover ==
    \/ Invoke
    \/ RunStep
    \/ KillOnce
    \/ KillInApply

SpecRecover ==
    /\ InitRun
    /\ [][NextRecover]_vars
    /\ WF_vars(Invoke)
    /\ WF_vars(RunStep)

-----------------------------------------------------------------------------
(* The stage order and the stage names as the specification gives them.     *)

StageOrder == <<LSInit, LSSelfUpdate, LSDependencyAudit, LSSync, LSBuild,
                LSLaunch, LSComplete>>

StageNames == <<"Init", "SelfUpdate", "DependencyAudit", "Sync", "Build",
                "Launch", "Complete">>

KnownNames == {"Init", "SelfUpdate", "DependencyAudit", "Sync", "Build",
               "Launch", "Complete", "Failed"}

ActionOrder == SubSeq(StageOrder, 1, 6)

(* s is a run of consecutive stages of the order that starts at stage k. *)
ConsecutiveFrom(s, k) ==
    \A i \in 1..Len(s) : k + i <= 6 /\ s[i] = StageOrder[k + i]

(* The step is a call of the named StateMachine method in SpecSM. *)
IsCall(name) == pc = "api" /\ pc' = "api" /\ ret'.call = name

(* The process is alive: it can be killed here. *)
KillPoint == pc \notin {"stopped", "api"}

(* C1: transition() called from the i-th stage of the order, i in 1..6,     *)
(* sets current() to the (i+1)-th stage and, when it returns without a      *)
(* write error, has persisted that stage and returns Some of it; called     *)
(* from Complete it returns None.                                           *)
C1_TransitionYieldsSuccessor ==
    [][IsCall("transition") =>
        /\ \A i \in 1..6 :
             cur = StageOrder[i] =>
                /\ cur' = StageOrder[i + 1]
                /\ ret'.tag \in {"OkSome", "Err"}
                /\ ret'.tag = "OkSome" =>
                      /\ ret'.v = StageOrder[i + 1]
                      /\ file' = StateJson(StageNames[i + 1])
        /\ cur = LSComplete => ret'.tag = "OkNone" /\ cur' = LSComplete]_vars

C1_Witness ==
    /\ pc = "api"
    /\ ret = Ret("transition", "OkSome", LSBuild)
    /\ cur = LSBuild
    /\ file = StateJson("Build")

(* C4: a state machine constructed on a stage file that is absent, is not   *)
(* JSON, has no string field "state" or names none of the eight stages has  *)
(* current() = Init; construction returns Ok with one of the eight stages.  *)
C4_BadFileLoadsInit ==
    ret.call = "new" =>
        /\ ret.tag = "Ok"
        /\ cur \in LauncherState
        /\ (\/ file.kind \in {"absent", "notjson"}
            \/ file.field # "string"
            \/ file.str \notin KnownNames) => cur = LSInit

C4_Witness ==
    /\ ret.call = "new"
    /\ file = StateJson("COMPLETE")
    /\ cur = LSInit

(* C6: from Failed, transition() returns None and changes neither           *)
(* current() nor the stage file; a call that leaves Failed is reset() or    *)
(* set_state().                                                             *)
C6_FailedIsDeadEnd ==
    [][(pc = "api" /\ pc' = "api" /\ cur = LSFailed) =>
        /\ ret'.call = "transition" =>
              ret'.tag = "OkNone" /\ cur' = LSFailed /\ file' = file
        /\ cur' # LSFailed => ret'.call \in {"reset", "set_state"}]_vars

C6_Witness ==
    /\ pc = "api"
    /\ ret = Ret("transition", "OkNone", LSFailed)
    /\ cur = LSFailed
    /\ file = StateJson("Failed")

-----------------------------------------------------------------------------
(* Claims about invocations (Spec).                                         *)

(* The latest invocation got as far as constructing its state machine. *)
StateMachineBuilt ==
    /\ ~(exit = "err" /\ err = "startup")
    /\ exit \notin {"help", "version", "elevated"}

NoStageTwice == Cardinality({executed[i] : i \in 1..Len(executed)}) = Len(executed)

LaterStages == {LSDependencyAudit, LSSync, LSBuild, LSLaunch}

C5_CompleteResetsToInit ==
    (loaded = LSComplete /\ StateMachineBuilt) =>
        /\ ConsecutiveFrom(executed, 0)
        /\ (executed = <<>> /\ pc \notin {"stopped", "loaded"}) =>
              pc = "loop" /\ cur = LSInit /\ file = StateJson("Init")
        /\ (pc = "action" /\ Len(executed) = 1) => file = StateJson("Init")
        /\ exit = "ok" => executed = ActionOrder

C5_Witness ==
    /\ loaded = LSComplete
    /\ startFile = StateJson("Complete")
    /\ exit = "ok"
    /\ executed = ActionOrder

(* C7: once a stage action has returned an error, no further stage action   *)
(* is dispatched in the invocation (no stage is executed twice), and when   *)
(* run() returns it returns that error with Failed persisted in the stage   *)
(* file; the only other return is the error of fail()'s own write.          *)
C7_FailurePersistsFailedAndStops ==
    result \notin {"none", "ok"} =>
        /\ pc \in {"fail", "stopped"}
        /\ exit \in {"running", "err", "killed"}
        /\ NoStageTwice
        /\ exit = "err" =>
              \/ err = result /\ file = StateJson("Failed")
              \/ err = "state_file" /\ ret = Ret("fail", "Err", LSFailed)

C7_Witness ==
    /\ result = "integrity"
    /\ executed = <<LSInit, LSSelfUpdate, LSDependencyAudit, LSSync>>
    /\ exit = "err"
    /\ err = "integrity"
    /\ file = StateJson("Failed")

(* C8: every transition() and fail() of the loop that returns Ok has        *)
(* written the new stage to the stage file; when run() has returned         *)
(* success the stage file does not exist, and the invocation after it       *)
(* loads Init and starts with the Init action.                              *)
C8_FileWrittenThenDeleted ==
    /\ [](exit = "ok" => file = Absent)
    /\ []((prevExit = "ok" /\ StateMachineBuilt) =>
            /\ startFile = Absent
            /\ loaded = LSInit
            /\ executed # <<>> => executed[1] = LSInit)
    /\ [][(pc \in {"transition", "fail"} /\ exit' # "killed") =>
            /\ ret'.call \in {"transition", "fail"}
            /\ ret'.tag # "Err" => load_state(file') = Some(cur') /\ cur' # cur]_vars

C8_Witness ==
    /\ prevExit = "ok"
    /\ startFile = Absent
    /\ pc = "action"
    /\ executed = <<LSInit>>

C10_Original ==
    \A i \in 1..Len(executed) :
        executed[i] \in LaterStages =>
            \E j \in 1..(i - 1) : executed[j] = LSSelfUpdate

(* C10 as amended: in an invocation whose first stage action is Init or     *)
(* SelfUpdate, the SelfUpdate action has returned success (and, unless      *)
(* skip_update is configured, the update check has completed) before any    *)
(* DependencyAudit, Sync, Build or Launch action is executed; an invocation *)
(* that resumes from a later persisted stage executes that stage first and  *)
(* performs no update check.                                                *)
C10_SelfUpdateFirstUnlessResumed ==
    \A i \in 1..Len(executed) :
        executed[i] \in LaterStages =>
            IF executed[1] \in {LSInit, LSSelfUpdate}
            THEN /\ \E j \in 1..(i - 1) : executed[j] = LSSelfUpdate
                 /\ ~skip_update => updateChecked
            ELSE /\ executed[1] = loaded
                 /\ loaded \in LaterStages
                 /\ LSSelfUpdate \notin {executed[j] : j \in 1..Len(executed)}
                 /\ ~updateChecked

C10_Witness ==
    /\ executed = <<LSInit, LSSelfUpdate, LSDependencyAudit>>
    /\ updateChecked
    /\ pc = "action"

-----------------------------------------------------------------------------
(* Claims about the self-updater.                                           *)

(* The step is the call of apply_update inside run_self_update. *)
ApplyCalled == upc = "verified" /\ uret'.call = "apply_update"

(* The step is apply_update from its call to its return, or to a kill after *)
(* one of its renames.                                                      *)
ApplyEntered ==
    /\ upc = "verified"
    /\ uret'.call \in {"apply_update", "killed_in_apply_update"}

(* C11: apply_update is called only when the last Updater call was a        *)
(* download_and_verify that returned Ok and the SHA-256 of the file at the  *)
(* temporary path, written as hex, equals the checksum of the update        *)
(* descriptor; and whenever a step of the SelfUpdate stage puts new content *)
(* at the executable's path, that content is either the file it backed up   *)
(* or the verified temporary file.                                          *)
C11_ApplyOnlyVerified ==
    [][/\ ApplyEntered =>
            /\ uret = Ret("download_and_verify", "Ok", "")
            /\ info # None
            /\ temp # Missing
            /\ hex_encode(Sha256(temp)) = info[1].checksum
       /\ (target' # target /\ target' # Missing) =>
            \/ target' = backup
            \/ /\ ApplyEntered
               /\ target' = temp
               /\ hex_encode(Sha256(target')) = info[1].checksum]_vars

C11_Witness ==
    /\ upc = "applied"
    /\ uret = Ret("apply_update", "Ok", "")
    /\ target = "launcher-1.1.0"
    /\ info # None
    /\ info[1].checksum = hex_encode(Sha256("launcher-1.1.0"))

(* The last launcher-version response named a version other than the        *)
(* running one and carried no checksum.                                     *)
UpdateWithoutChecksum ==
    /\ resp.kind = "json"
    /\ resp.version # LAUNCHER_VERSION
    /\ resp.checksum = None

(* C12 as claimed: on a response with a different version and a null        *)
(* checksum, check_for_update yields None.                                  *)
C12_Original ==
    UpdateWithoutChecksum => uret = Ret("check_for_update", "OkNone", "")

(* C12 as amended: on a response with a different version and a null        *)
(* checksum, check_for_update returns an error, neither None nor an update  *)
(* descriptor; it is the last Updater call of that run_self_update, so      *)
(* nothing is downloaded or applied.                                        *)
C12_NoChecksumIsError ==
    UpdateWithoutChecksum =>
        /\ uret = Ret("check_for_update", "Err", "no_checksum")
        /\ info = None
        /\ upc \in {"returned", "idle"}

C12_Witness ==
    /\ UpdateWithoutChecksum
    /\ upc = "returned"
    /\ uret.tag = "Err"
    /\ target = InstalledBinary
    /\ temp = Missing

(* C13: when the update check of this invocation got a response with a      *)
(* different version and no checksum, the SelfUpdate action returned that   *)
(* as an error: SelfUpdate is the last action dispatched, DependencyAudit   *)
(* is never dispatched, and when run() returns it returns that error with   *)
(* Failed persisted in the stage file; the only other return is the error   *)
(* of fail()'s own write.                                                   *)
C13_NoChecksumFailsStage ==
    UpdateWithoutChecksum =>
        /\ result = "no_checksum"
        /\ pc \in {"fail", "stopped"}
        /\ exit \in {"running", "err", "killed"}
        /\ executed # <<>>
        /\ executed[Len(executed)] = LSSelfUpdate
        /\ \A i \in 1..Len(executed) : executed[i] # LSDependencyAudit
        /\ exit = "err" =>
              \/ err = "no_checksum" /\ file = StateJson("Failed")
              \/ err = "state_file" /\ ret = Ret("fail", "Err", LSFailed)

C13_Witness ==
    /\ UpdateWithoutChecksum
    /\ executed = <<LSInit, LSSelfUpdate>>
    /\ exit = "err"
    /\ err = "no_checksum"
    /\ file = StateJson("Failed")

(* The step is the call of download_and_verify inside run_self_update. *)
VerifyCalled == upc = "checked" /\ uret'.call = "download_and_verify"

(* The call downloaded bytes, wrote them to the temporary path and read     *)
(* them back, and their SHA-256 is not the expected checksum.               *)
Mismatch ==
    /\ VerifyCalled
    /\ uin'.dl.kind = "bytes"
    /\ uin'.w = "written"
    /\ uin'.readable
    /\ hex_encode(Sha256(uin'.dl.bytes)) # info[1].checksum

(* C14 as claimed: download_and_verify returns Ok only if the SHA-256 of    *)
(* the file at the temporary path equals the expected checksum; on a        *)
(* mismatch it returns an error and the temporary file does not exist.      *)
C14_Original ==
    [][/\ (VerifyCalled /\ uret'.tag = "Ok") =>
            /\ temp' # Missing
            /\ hex_encode(Sha256(temp')) = info[1].checksum
       /\ Mismatch => uret'.tag = "Err" /\ temp' = Missing]_vars

(* C14 as amended: download_and_verify returns Ok only if the SHA-256 of    *)
(* the file at the temporary path equals the expected checksum; on a        *)
(* mismatch it returns an error and has tried to remove the temporary file, *)
(* which does not exist afterwards unless remove_file failed: then it still *)
(* holds the rejected bytes.                                                *)
C14_VerifiedOrRejected ==
    [][/\ (VerifyCalled /\ uret'.tag = "Ok") =>
            /\ temp' # Missing
            /\ hex_encode(Sha256(temp')) = info[1].checksum
       /\ Mismatch =>
            /\ uret' = Ret("download_and_verify", "Err", "integrity")
            /\ IF uin'.removed THEN temp' = Missing
                               ELSE temp' = uin'.dl.bytes]_vars

C14_Witness ==
    /\ upc = "returned"
    /\ uret = Ret("download_and_verify", "Err", "integrity")
    /\ info # None
    /\ uin.dl.kind = "bytes"
    /\ hex_encode(Sha256(uin.dl.bytes)) # info[1].checksum
    /\ uin.removed
    /\ temp = Missing

(* C15 as claimed: when apply_update is called with an executable at        *)
(* target_path, then however its renames end, target_path afterwards holds  *)
(* that executable or the content of the temporary file, never nothing; and *)
(* when apply_update returns an error, target_path holds the original.      *)
C15_Original ==
    [][(ApplyCalled /\ target # Missing) =>
          /\ target' # Missing
          /\ target' \in {target, temp}
          /\ uret'.tag = "Err" => target' = target]_vars

(* What apply_update does guarantee: target_path is left empty only when    *)
(* the second rename and the rollback rename both failed, and the original  *)
(* is then at backup_path.                                                  *)
C15_TargetLostOnlyIfRollbackFails ==
    [][(ApplyCalled /\ target # Missing) =>
          /\ target' \in {target, temp, Missing}
          /\ uret'.tag = "Ok" => target' = temp
          /\ target' = Missing =>
                /\ uret'.tag = "Err"
                /\ ~uin'.replace_rename
                /\ ~uin'.rollback_rename
                /\ backup' = target]_vars

(* apply_update has returned an error and there is no executable at         *)
(* target_path: the original is at backup_path.                             *)
C15_Witness ==
    /\ upc = "returned"
    /\ uret = Ret("apply_update", "Err", "filesystem")
    /\ target = Missing
    /\ backup = InstalledBinary
    /\ temp = "launcher-1.1.0"

(* C16: when apply_update has returned Ok the process has exited: SelfUpdate *)
(* is the last action dispatched in that invocation and the stage file      *)
(* still records SelfUpdate; the invocation after such an exit loads        *)
(* SelfUpdate from that file and starts with the SelfUpdate action.         *)
C16_ExitAfterApply ==
    /\ (uret = Ret("apply_update", "Ok", "")) <=> (exit = "restart")
    /\ exit = "restart" =>
          /\ pc = "stopped"
          /\ executed # <<>>
          /\ executed[Len(executed)] = LSSelfUpdate
          /\ file = StateJson("SelfUpdate")
    /\ (prevExit = "restart" /\ StateMachineBuilt) =>
          /\ startFile = StateJson("SelfUpdate")
          /\ loaded = LSSelfUpdate
          /\ executed # <<>> => executed[1] = LSSelfUpdate

C16_Witness ==
    /\ prevExit = "restart"
    /\ loaded = LSSelfUpdate
    /\ executed = <<LSSelfUpdate>>
    /\ pc = "action"

-----------------------------------------------------------------------------
(* Claims about the sync engine.                                            *)

(* The step is the iteration of the loop of sync_files on the entry p. *)
EntryStep(p) == spc = "sync" /\ p \in pending /\ pending' = pending \ {p}

(* The step is sync_files returning Ok. *)
SyncFilesReturnsOk ==
    spc = "sync" /\ sret'.call = "sync_files" /\ sret'.tag = "Ok"

(* The local file is absent, or its size is not the manifest size, or its   *)
(* size is the manifest size and its SHA-256, written as hex, is not the    *)
(* manifest checksum.                                                       *)
OutOfSync(local, fi) ==
    \/ local = Missing
    \/ Len(local) # fi.size
    \/ Len(local) = fi.size /\ hex_encode(Sha256(local)) # fi.checksum

(* C17: an iteration of sync_files calls download_file for its entry only   *)
(* if the local file is out of sync, and if the local file is out of sync   *)
(* it calls download_file unless the check of the local file itself failed  *)
(* and sync_files returns that error; when sync_files returns Ok, every     *)
(* entry has been looked at, every download it asked for succeeded and the  *)
(* count it returns is the number of entries downloaded.                    *)
C17_DownloadsIffOutOfSync ==
    [][/\ \A p \in ManifestPaths :
            EntryStep(p) =>
               /\ p \in requested' => OutOfSync(tree[p], manifest[p])
               /\ p \notin requested' =>
                     \/ ~OutOfSync(tree[p], manifest[p])
                     \/ /\ sret' = SyncRet("sync_files", "Err", "filesystem", 0)
                        /\ tree[p] # Missing
       /\ SyncFilesReturnsOk =>
            /\ pending = {}
            /\ requested = downloaded
            /\ downloaded \subseteq Entries(manifest)
            /\ sret'.n = Cardinality(downloaded)]_vars

C17_Witness ==
    /\ spc = "returned"
    /\ sret = SyncRet("sync_files", "Ok", "", 1)
    /\ Entries(manifest) = ManifestPaths
    /\ downloaded = {"src/a"}
    /\ requested = {"src/a"}
    /\ tree["src/b"] = "y"
    /\ manifest["src/b"].size = Len("y")

(* The bytes received for the entry p do not hash to the entry's checksum. *)
BadDownload(p) ==
    /\ EntryStep(p)
    /\ got'.kind = "bytes"
    /\ hex_encode(Sha256(got'.bytes)) # manifest[p].checksum

(* C18: when the bytes downloaded for an entry do not hash to the entry's   *)
(* checksum, sync_files returns an error at once and the file at the        *)
(* entry's path, like every other file of the tree, is what it was before:  *)
(* absent if it was absent, its old content otherwise.                      *)
C18_MismatchLeavesFile ==
    [][\A p \in ManifestPaths :
          BadDownload(p) =>
             /\ sret' = SyncRet("sync_files", "Err", "integrity", 0)
             /\ spc' = "returned"
             /\ tree'[p] = tree[p]
             /\ tree' = tree
             /\ p \notin downloaded'
             /\ synced_count' = synced_count]_vars

C18_Witness ==
    /\ spc = "returned"
    /\ sret = SyncRet("sync_files", "Err", "integrity", 0)
    /\ requested = {"src/a"}
    /\ got.kind = "bytes"
    /\ got.bytes = "y"
    /\ manifest["src/a"].checksum = hex_encode(Sha256("x"))
    /\ tree["src/a"] = Missing

(* The step is download_full_archive returning Ok. *)
ArchiveReturnsOk ==
    spc = "extract" /\ spc' = "returned" /\ sret'.tag = "Ok"

(* C19 as claimed: download_full_archive empties an existing engine tree    *)
(* before it extracts, and whenever it returns Ok the tree is exactly what  *)
(* the archive holds: every file of the archive, and no other file.         *)
C19_Original ==
    [][/\ (spc = "clear" /\ spc' = "fetch") => tree' = EmptyTree
       /\ ArchiveReturnsOk => tree' = got.archive]_vars

(* What download_full_archive does guarantee: when it returns Ok every file *)
(* of the archive is in the tree with the archive's content and every other *)
(* file is what it was before the extraction; the tree is exactly the       *)
(* archive whenever the engine directory was absent or was removed.         *)
C19_ExactOnlyIfCleared ==
    [][/\ (spc = "clear" /\ spc' = "fetch" /\ ~engine_dir') => tree' = EmptyTree
       /\ ArchiveReturnsOk =>
            /\ \A p \in Files(got.archive) : tree'[p] = got.archive[p]
            /\ \A p \in Paths \ Files(got.archive) : tree'[p] = tree[p]
            /\ ~engine_dir => tree' = got.archive]_vars

(* download_full_archive has returned Ok and a file of the previous tree    *)
(* that the archive does not hold is still there.                           *)
C19_Witness ==
    /\ spc = "returned"
    /\ sret = SyncRet("download_full_archive", "Ok", "", 0)
    /\ got.archive[ArchiveOnlyPath] = Missing
    /\ tree[ArchiveOnlyPath] = "y"

(* C20 as claimed: when run_sync met a non-empty tree and a failed manifest *)
(* request, it has called download_full_archive, and when that returned Ok  *)
(* run_sync returns Ok with the tree non-empty and exactly what the archive *)
(* holds.                                                                   *)
C20_Original ==
    (why = "manifest_failed" /\ spc = "returned") =>
        /\ sret.call = "download_full_archive"
        /\ sret.tag = "Ok" =>
              /\ Files(tree) # {}
              /\ tree = got.archive

(* What run_sync does guarantee after a failed manifest request: it goes on *)
(* to download_full_archive, whose result is its own; when that is Ok the   *)
(* tree is non-empty and holds every file of the archive.                   *)
C20_FallsBackToArchive ==
    /\ (why = "manifest_failed" /\ spc \in {"clear", "fetch", "extract"}) =>
          sret.call = "get_manifest" /\ sret.tag = "Err"
    /\ (why = "manifest_failed" /\ spc = "returned") =>
          /\ sret.call = "download_full_archive"
          /\ sret.tag = "Ok" =>
                /\ Files(tree) # {}
                /\ \A p \in Files(got.archive) : tree[p] = got.archive[p]

(* The manifest request failed, download_full_archive returned Ok and the   *)
(* tree holds a file the archive does not.                                  *)
C20_Witness ==
    /\ why = "manifest_failed"
    /\ spc = "returned"
    /\ sret = SyncRet("download_full_archive", "Ok", "", 0)
    /\ tree # got.archive
    /\ tree["src/a"] = "y"
    /\ tree["src/b"] = "zz"

-----------------------------------------------------------------------------
(* Claims about the build orchestrator. *)

(* needs_rebuild has just returned Ok to run_build of main.rs *)
NeedsRebuildReturned == bret.call = "needs_rebuild" /\ bret.tag = "Ok"

(* the current source version marker: what get_source_version reads *)
SourceVersion == IF source_file = Missing THEN "unknown" ELSE source_file

(* C21: needs_rebuild() returns true if and only if the force flag is set,  *)
(* or a marker of a prior successful build is missing (.build_complete or   *)
(* .build_version), or the cached version marker differs from the current   *)
(* source version marker, the two compared without surrounding white space; *)
(* with the flag unset, the markers present and equal, it returns false.    *)
C21_NeedsRebuildIff ==
    NeedsRebuildReturned =>
        ((rebuild = "true") <=>
            \/ force_rebuild
            \/ ~build_marker
            \/ version_file = Missing
            \/ trim(version_file) # trim(SourceVersion))

C21_Witness ==
    /\ NeedsRebuildReturned
    /\ rebuild = "false"
    /\ ~force_rebuild /\ build_marker
    /\ version_file = "v1\n" /\ source_file = "v1"

(* C22: the build version marker and the build-complete marker are written *)
(* only after run_build has returned success in the same Build stage        *)
(* execution; when run_build fails, both markers are left unchanged.        *)
C22_MarkersOnlyAfterBuild ==
    [][/\ (version_file' # version_file \/ build_marker' # build_marker)
            => built /\ bret.call = "run_build" /\ bret.tag = "Ok"
       /\ (bret'.call = "run_build" /\ bret'.tag = "Err")
            => version_file' = version_file /\ build_marker' = build_marker]_vars

C22_Witness ==
    /\ bret.call = "save_build_version" /\ bret.tag = "Ok"
    /\ built
    /\ build_marker
    /\ version_file = SourceVersion

-----------------------------------------------------------------------------
(* Claims about the dependency manager. *)

(* the records the first check found missing that install_missing has an    *)
(* installation procedure for, in the order of the vector                   *)
ToInstall == SelectSeq(audit.missing, LAMBDA d : d \in Installable)

FirstOf(seq, k) == {seq[i] : i \in 1..k}

(* C23, as claimed: in install_missing the failure of one installation does *)
(* not prevent the attempts for the remaining missing dependencies: every   *)
(* record with installed == false gets its installation procedure invoked.  *)
C23_Original ==
    audit.installing => audit.invoked = FirstOf(ToInstall, Len(ToInstall))

(* C23, what the code does: install_missing invokes the procedures of the   *)
(* missing records in order and stops at the first that fails; every        *)
(* missing record is attempted only when no procedure fails.                *)
C23_StopsAtFirstFailure ==
    audit.installing =>
        /\ \E k \in 0..Len(ToInstall) : audit.invoked = FirstOf(ToInstall, k)
        /\ audit.v # "install_failed"
              => audit.invoked = FirstOf(ToInstall, Len(ToInstall))
        /\ audit.v = "install_failed" => audit.invoked # {} /\ ~audit.rechecked

C23_Witness ==
    /\ audit.installing
    /\ audit.v = "install_failed"
    /\ audit.missing = <<"Rust", "Vulkan SDK">>
    /\ audit.invoked = {"Rust"}

(* what a check_all on the machine as it is now reports not installed *)
StillMissing == not_installed(check_all(present))

(* run_dependency_audit has returned, and it was not a dry run *)
AuditReturned == dpc = "returned" /\ ~dry_run

(* C24: outside dry-run, whenever a dependency is still reported not        *)
(* installed after the installation attempt, the DependencyAudit stage      *)
(* fails and its error names exactly the dependencies still missing; the    *)
(* stage never succeeds with a dependency missing.                          *)
C24_StillMissingFails ==
    AuditReturned =>
        /\ (audit.installing /\ StillMissing # <<>>) => audit.tag = "Err"
        /\ (audit.rechecked /\ StillMissing # <<>>)
              => audit.v = "still_missing" /\ audit.names = StillMissing
        /\ audit.tag = "Ok" => StillMissing = <<>>

C24_Witness ==
    /\ AuditReturned
    /\ audit.rechecked
    /\ "Rust" \in audit.invoked
    /\ audit.tag = "Err"
    /\ audit.names = <<"Rust", "CMake">>

-----------------------------------------------------------------------------
(* Claims about an invocation with --dry-run, and about repeated runs. *)

(* the mutations claim C25 names *)
Destructive == {"install", "sync", "build", "launch", "replace_executable", "restart"}

(* C25, as claimed: with --dry-run an invocation performs only the audit    *)
(* and the version check: it installs no dependency, does not sync, build   *)
(* or launch, and does not replace or restart the launcher executable.      *)
C25_Original == dry_run => effects \cap Destructive = {}

(* C25, what the code does: with --dry-run no dependency is installed and   *)
(* run_sync, run_build and run_launch are not called; the self-update does  *)
(* not look at the flag, and only skip_update keeps it from downloading,    *)
(* replacing the executable and ending the process.                         *)
C25_DryRunStillUpdates ==
    dry_run =>
        /\ effects \cap {"install", "sync", "build", "launch"} = {}
        /\ skip_update => effects = {}

C25_Witness ==
    /\ dry_run
    /\ "replace_executable" \in effects
    /\ exit = "restart"
    /\ executed = <<LSInit, LSSelfUpdate>>

-----------------------------------------------------------------------------
(* Claims about what the Sync stage installs. *)

(* this step puts a file at path p, or other content into the file there *)
Placed(p) == tree'[p] # tree[p] /\ tree'[p] # Missing

(* this step is download_file for the entry p: the bytes received have the  *)
(* checksum of the entry, and the file holds them, or the write failed and  *)
(* sync_files returns the error                                             *)
CheckedWrite(p) ==
    /\ spc = "sync"
    /\ p \in ManifestPaths
    /\ p \in requested'
    /\ got'.kind = "bytes"
    /\ calculate_checksum(got'.bytes) = manifest[p].checksum
    /\ \/ tree'[p] = got'.bytes
       \/ tree'[p] = TornFile /\ sret'.tag = "Err"

(* this step is the extraction of download_full_archive *)
Extracted(p) == spc = "extract" /\ tree'[p] = got.archive[p]

(* C28, as claimed: every file the Sync stage places in the install tree,   *)
(* through sync_files or through download_full_archive, was checked against *)
(* an expected checksum before it was written or extracted.                 *)
C28_Original == [][\A p \in Paths : Placed(p) => CheckedWrite(p)]_vars

(* C28, what the code does: a file sync_files places was checked against    *)
(* the checksum of its manifest entry before it was written; the files of   *)
(* the full archive are extracted as received, checked against nothing.     *)
C28_CheckedUnlessArchive ==
    [][\A p \in Paths : Placed(p) => CheckedWrite(p) \/ Extracted(p)]_vars

C28_Witness ==
    /\ spc = "returned"
    /\ sret.call = "download_full_archive" /\ sret.tag = "Ok"
    /\ why = "no_local_files"
    /\ got.kind = "archive"
    /\ tree = got.archive
    /\ tree[ArchiveOnlyPath] = "y"

-----------------------------------------------------------------------------
(* Claims about the exit code and the order of the stage actions. *)

(* the last invocation ran the pipeline to completion: the Launch action    *)
(* returned Ok, the loop was left and clear_saved_state returned Ok         *)
RanToCompletion ==
    /\ pc = "stopped"
    /\ exit # "killed"
    /\ lastDone = Some(LSLaunch)
    /\ ret.call = "clear_saved_state" /\ ret.tag = "Ok"

(* in the last invocation a stage action returned Err and the loop was left *)
(* by `return Err(e)` or by the `?` on fail()                               *)
StageFailurePropagated ==
    /\ pc = "stopped"
    /\ exit # "killed"
    /\ result \notin {"none", "ok"}

(* C29: the process exits with code 0 when the pipeline runs to completion  *)
(* or when --help or --version is given, and with a non-zero code whenever  *)
(* a stage failure propagates out of the driving loop.                      *)
C29_ExitCodes ==
    /\ RanToCompletion => code = Some(0)
    /\ exit \in {"help", "version"} => code = Some(0)
    /\ StageFailurePropagated => code # None /\ code # Some(0)

C29_Witness ==
    /\ StageFailurePropagated
    /\ result = "integrity"
    /\ code = Some(1)
    /\ prevExit = "version"

(* The run of the order the invocation's stage actions start at: the loaded *)
(* stage, or Init when Complete or Failed was loaded and reset.             *)
StartOffset ==
    IF loaded \in ActionStages
    THEN (CHOOSE i \in 1..6 : StageOrder[i] = loaded) - 1
    ELSE 0

InLoop == pc \in {"loop", "action", "transition", "fail"}

(* the step leaves the loop of run() and is not a kill *)
LeavesLoop == InLoop /\ pc' \in {"clear", "stopped"} /\ exit' # "killed"

(* C30 as claimed: the stage actions executed are a run of consecutive      *)
(* stages of the order from the loaded stage (Init after a reset), none     *)
(* twice, and the loop is left exactly when transition() returns None or a  *)
(* stage action has failed.                                                 *)
C30_Original ==
    /\ [](ConsecutiveFrom(executed, StartOffset) /\ NoStageTwice)
    /\ [][LeavesLoop =>
            \/ pc = "transition" /\ ret'.call = "transition" /\ ret'.tag = "OkNone"
            \/ pc = "fail" /\ result \notin {"none", "ok"}]_vars

(* C30 as amended: the stage actions executed are a run of consecutive      *)
(* stages of the order from the loaded stage (Init after a reset), none     *)
(* twice.  transition() never returns None in the loop; the loop is left    *)
(* exactly when current() is Complete at its top (after Launch succeeded    *)
(* and transition() returned Complete), when a stage action has failed,     *)
(* when the stage-file write of transition(), reset() or fail() fails, or   *)
(* when the self-update ends the process to restart.                        *)
C30_ContiguousRun ==
    /\ [](ConsecutiveFrom(executed, StartOffset) /\ NoStageTwice)
    /\ [][(pc = "transition" /\ exit' # "killed") =>
            ret'.call = "transition" /\ ret'.tag # "OkNone"]_vars
    /\ [][LeavesLoop =>
            \/ /\ pc = "loop" /\ current = LSComplete /\ pc' = "clear"
               /\ lastDone = Some(LSLaunch)
               /\ ret = Ret("transition", "OkSome", LSComplete)
            \/ pc = "fail" /\ result \notin {"none", "ok"}
            \/ /\ ret'.call \in {"transition", "reset", "fail"}
               /\ ret'.tag = "Err"
               /\ exit' = "err" /\ err' = "state_file"
            \/ pc = "action" /\ current = LSSelfUpdate /\ exit' = "restart"]_vars
    /\ [][(exit' # "killed" /\ (pc = "fail" \/ (pc = "loop" /\ current = LSComplete)))
            => LeavesLoop]_vars

(* a resumed invocation has run Build and Launch and leaves the loop at     *)
(* Complete                                                                 *)
C30_Witness ==
    /\ loaded = LSBuild
    /\ executed = <<LSBuild, LSLaunch>>
    /\ pc = "clear"
    /\ ret = Ret("transition", "OkSome", LSComplete)

-----------------------------------------------------------------------------
(* Claims about kills (SpecRecover).                                        *)

(* the invocation has ended by itself: run() returned or the process        *)
(* exited to restart                                                        *)
EndedByItself == pc = "stopped" /\ exit \in {"ok", "err", "restart"}

(* C27 as claimed: after a kill at any point, the invocation that follows   *)
(* is started and runs to its end: it reaches Complete and returns Ok       *)
(* unless one of its stage actions or stage-file writes fails or it         *)
(* restarts after an update.                                                *)
C27_Original ==
    (exit = "killed") ~> (RanToCompletion \/ (EndedByItself /\ exit # "ok"))

(* C27 for the kills that leave the launcher's executable in place: after   *)
(* such a kill the invocation that follows is started and runs to its end.  *)
C27_RecoversWithExecutable ==
    (exit = "killed" /\ target # Missing)
        ~> (RanToCompletion \/ (EndedByItself /\ exit # "ok"))

(* the process was killed between the two renames of apply_update: no file  *)
(* is at target_path, the executable is at backup_path, the download at     *)
(* temp_path                                                                *)
C27_Witness ==
    /\ exit = "killed"
    /\ target = Missing
    /\ backup = InstalledBinary
    /\ temp # Missing
    /\ file = StateJson("SelfUpdate")

-----------------------------------------------------------------------------
(* Claims about a repeated run (SpecSync).                                  *)

(* run_sync has returned Ok from sync_files, the run_sync before it did so  *)
(* with the same manifest, and nothing touched the tree in between          *)
RepeatedSync ==
    /\ spc = "returned"
    /\ sret.call = "sync_files" /\ sret.tag = "Ok"
    /\ prevManifest = Some(manifest)

(* the entry's size is the length of the content its checksum names *)
SizeAgrees(fi) ==
    \E c \in ServedFiles : calculate_checksum(c) = fi.checksum /\ Len(c) = fi.size

(* C26 as claimed, for its Sync stage: a Sync that follows a completed Sync *)
(* with the same manifest downloads zero files and does not clear the tree. *)
C26_Original ==
    RepeatedSync => (sret.n = 0 /\ downloaded = {} /\ why = "none")

(* C26 as the code has it: a Sync that follows a completed Sync with the    *)
(* same manifest does not clear the tree and downloads exactly the entries  *)
(* whose size disagrees with the content their checksum names, every time.  *)
C26_RepeatedSyncRefetches ==
    RepeatedSync =>
        /\ why = "none"
        /\ requested = downloaded
        /\ sret.n = Cardinality(downloaded)
        /\ downloaded = {p \in Entries(manifest) : ~SizeAgrees(manifest[p])}

(* the second Sync with the same manifest has downloaded src/a again *)
C26_Witness ==
    /\ RepeatedSync
    /\ downloaded = {"src/a"}
    /\ tree["src/a"] = "x"
    /\ manifest["src/a"].size = Len("zz")

-----------------------------------------------------------------------------
(* Claims about the state machine, the build cache, the updater's files and *)
(* the sync engine, continued.                                              *)

(* C31: no stage action is dispatched while current() is Failed; at the top *)
(* of the loop with Failed the step is reset(), which sets Init and, when   *)
(* it returns Ok, has written Init to the stage file and goes on with the   *)
(* loop; the stage actions of an invocation that loaded Failed are the      *)
(* stages of the order from Init on, one after the other.                   *)
C31_FailedResetsFirst ==
    /\ [][Len(executed') > Len(executed) => (current # LSFailed /\ current' # LSFailed)]_vars
    /\ [][(pc = "loop" /\ current = LSFailed /\ exit' # "killed") =>
            /\ ret'.call = "reset"
            /\ cur' = LSInit
            /\ executed' = executed
            /\ ret'.tag # "Err" => pc' = "loop" /\ load_state(file') = Some(LSInit)
            /\ ret'.tag = "Err" => pc' = "stopped" /\ exit' = "err"]_vars
    /\ []((loaded = LSFailed /\ StateMachineBuilt) =>
            /\ ConsecutiveFrom(executed, 0)
            /\ executed # <<>> => load_state(file) # Some(LSFailed) \/ pc \in {"stopped"})

(* an invocation that loaded Failed has run Init and is running SelfUpdate  *)
C31_Witness ==
    /\ loaded = LSFailed
    /\ startFile = StateJson("Failed")
    /\ executed = <<LSInit, LSSelfUpdate>>
    /\ pc = "action"
    /\ file = StateJson("SelfUpdate")

(* the Build stage has returned Err in an execution in which needs_rebuild  *)
(* had returned true                                                        *)
BuildStageFailed == bpc = "returned" /\ bret.tag = "Err" /\ rebuild = "true"

(* needs_rebuild, called on the files as they are, can return false *)
CacheValid ==
    \E io \in ReadOutcomes :
        LET r == needs_rebuild(bdisk, force_rebuild, io)
        IN  r.tag = "Ok" /\ r.v = FALSE

(* C32 as claimed: when a Build stage that had to rebuild ends in failure,  *)
(* whatever call failed, the markers it leaves do not make needs_rebuild    *)
(* return false.                                                            *)
C32_Original == BuildStageFailed => ~CacheValid

(* C32 as amended: only save_build_version writes the markers, and it is    *)
(* called only after run_build returned Ok; when the stage fails before     *)
(* that (needs_rebuild or the managed application build failed), the        *)
(* markers are as they were and needs_rebuild does not return false.  A     *)
(* stage that fails later (save_build_version itself, the render-fabric     *)
(* build, the launch of the validation tests) can leave both markers        *)
(* written.                                                                 *)
C32_NoMarkerUnlessBuilt ==
    /\ []((BuildStageFailed /\ ~built) => ~CacheValid)
    /\ [][(version_file' # version_file \/ build_marker' # build_marker)
            => bpc = "save" /\ built]_vars
    /\ []((bpc = "returned" /\ bret.tag = "Err" /\ built) =>
            bret.call \in {"save_build_version", "build_render_fabric",
                           "run_validation_tests"})

(* the managed application was built and its markers saved, then the        *)
(* render-fabric build failed: the stage failed and the cache is valid      *)
C32_Witness ==
    /\ BuildStageFailed
    /\ built
    /\ bret.call = "build_render_fabric"
    /\ CacheValid
    /\ build_marker /\ version_file = "v2" /\ source_file = "v2"

(* the step is a call of transition(), fail(), reset() or set_state() that  *)
(* returns without an error and has written the stage file                  *)
SavedOk ==
    /\ pc = "api" /\ pc' = "api"
    /\ \/ ret'.call \in {"fail", "reset", "set_state"} /\ ret'.tag = "Ok"
       \/ ret'.call = "transition" /\ ret'.tag = "OkSome"

(* C33: each of the eight stages survives the round trip: a successful      *)
(* transition(), fail(), reset() or set_state() leaves a stage file that    *)
(* load_state parses back to the stage persisted, and a state machine       *)
(* constructed on the file save_state wrote for a stage has that stage as   *)
(* current().                                                               *)
C33_RoundTrip ==
    /\ [][SavedOk => /\ file' = StateJson(DebugName(cur'))
                     /\ load_state(file') = Some(cur')]_vars
    /\ [][(pc = "stopped" /\ pc' = "api") =>
            \A s \in LauncherState :
                file = StateJson(DebugName(s)) => (cur' = s /\ ret'.call = "new")]_vars
    /\ [](\A s \in LauncherState : load_state(StateJson(DebugName(s))) = Some(s))

(* a state machine constructed on a file that set_state or fail wrote in    *)
(* this behaviour has Failed as current()                                   *)
C33_Witness ==
    /\ ret.call = "new"
    /\ cur = LSFailed
    /\ file = StateJson("Failed")
    /\ startFile = Absent

(* the step is a call of transition(), fail(), reset() or set_state() *)
SavingCall ==
    /\ pc = "api" /\ pc' = "api"
    /\ ret'.call \in {"transition", "fail", "reset", "set_state"}

(* the stage the call sets before it writes *)
StageSet ==
    CASE ret'.call = "transition" -> IF next(cur) = None THEN cur ELSE next(cur)[1]
      [] ret'.call = "fail" -> LSFailed
      [] ret'.call = "reset" -> LSInit
      [] OTHER -> ret'.v

(* C34 as claimed: after a successful call the stage file records           *)
(* current(); when the write fails the call returns an error with           *)
(* current() at the new stage and the file as it was before the call.       *)
C34_Original ==
    [][SavingCall =>
        /\ ret'.tag \in {"Ok", "OkSome"} => load_state(file') = Some(cur')
        /\ ret'.tag = "Err" => cur' = StageSet /\ file' = file]_vars

(* C34 as amended: after a successful call the stage file records           *)
(* current(); when the write fails the call returns an error with           *)
(* current() at the new stage, and the file is as it was before the call    *)
(* or, when std::fs::write failed after truncating it, holds no stage.      *)
C34_MemoryFirst ==
    [][SavingCall =>
        /\ cur' = StageSet
        /\ ret'.tag \in {"Ok", "OkSome"} => load_state(file') = Some(cur')
        /\ ret'.tag = "Err" =>
              /\ file' \in {file, NotJson}
              /\ file' # file => load_state(file') = None]_vars

(* fail() returned Err from a write that truncated the file: current() is   *)
(* Failed, the file records nothing                                         *)
C34_Witness ==
    /\ pc = "api"
    /\ ret = Ret("fail", "Err", LSFailed)
    /\ cur = LSFailed
    /\ file = NotJson
    /\ startFile = StateJson("Sync")

(* the step is apply_update from its call to its return or to a kill after  *)
(* one of its renames, called with an executable at target_path             *)
ApplyRanOrKilled == ApplyEntered /\ target # Missing

(* C35: wherever apply_update stops (it returns, or the process is killed   *)
(* after one of its renames), the executable that was at target_path is at  *)
(* target_path or at the backup path unless the replacement is at           *)
(* target_path; and the backup path is empty only if apply_update returned  *)
(* Ok with the replacement at target_path or the original is back at        *)
(* target_path.                                                             *)
C35_OriginalKept ==
    [][ApplyRanOrKilled =>
          /\ target' = target \/ backup' = target \/ (temp # Missing /\ target' = temp)
          /\ backup' = Missing =>
                \/ target' = target
                \/ uret' = Ret("apply_update", "Ok", "") /\ target' = temp]_vars

(* the process was killed after the first rename: the original is at the    *)
(* backup path, the replacement still at the temporary path                 *)
C35_Witness ==
    /\ uret = Ret("killed_in_apply_update", "Killed", "after_backup_rename")
    /\ target = Missing
    /\ backup = InstalledBinary
    /\ temp = "launcher-1.1.0"

(* the step is a step of sync_files: the create_dir_all at its head, an     *)
(* iteration of its loop, or its return                                     *)
SyncFilesStep == spc = "sync" \/ (spc = "idle" /\ spc' = "sync")

(* C36: a step of sync_files changes the file at a path only if the path is *)
(* an entry of the manifest whose local file was out of sync and the bytes  *)
(* written are the download, checked against the entry's checksum before    *)
(* the write; it removes no file, leaves every file that is not an entry    *)
(* as it is, and calls download_file for no entry that is in sync.          *)
C36_WritesOnlyDownloadedEntries ==
    [][SyncFilesStep =>
          \A p \in Paths :
             /\ tree'[p] # tree[p] =>
                   /\ p \in Entries(manifest)
                   /\ OutOfSync(tree[p], manifest[p])
                   /\ CheckedWrite(p)
             /\ tree[p] # Missing => tree'[p] # Missing
             /\ p \notin Entries(manifest') => tree'[p] = tree[p]
             /\ (p \in requested' /\ p \notin requested) =>
                   p \in Entries(manifest) /\ OutOfSync(tree[p], manifest[p])]_vars

(* sync_files returned Ok after it downloaded src/a; src/b was in sync and  *)
(* src/c, which the manifest does not name, is as the archive left it       *)
C36_Witness ==
    /\ spc = "returned"
    /\ sret = SyncRet("sync_files", "Ok", "", 1)
    /\ downloaded = {"src/a"}
    /\ requested = {"src/a"}
    /\ Entries(manifest) = ManifestPaths
    /\ tree["src/a"] = "y"
    /\ tree["src/b"] = "zz"
    /\ tree[ArchiveOnlyPath] = "y"

(* sync_files has returned Ok *)
SyncFilesOk == spc = "returned" /\ sret.call = "sync_files" /\ sret.tag = "Ok"

(* C37 as claimed: when sync_files has returned Ok, every manifest entry is *)
(* in sync: its local file exists, has the manifest size and the manifest   *)
(* checksum; and a sync_files repeated at once with the same manifest       *)
(* returns 0.                                                               *)
C37_Original ==
    /\ SyncFilesOk =>
          \A p \in Entries(manifest) : ~OutOfSync(tree[p], manifest[p])
    /\ RepeatedSync => sret.n = 0

(* C37 as the code has it: when sync_files has returned Ok, the local file  *)
(* of every entry exists and has the manifest checksum; it has the manifest *)
(* size if the manifest size is the length of the content the checksum      *)
(* names, and otherwise it is out of sync for ever.                         *)
C37_InSyncUpToSize ==
    SyncFilesOk =>
        \A p \in Entries(manifest) :
            /\ tree[p] # Missing
            /\ calculate_checksum(tree[p]) = manifest[p].checksum
            /\ SizeAgrees(manifest[p]) <=> ~OutOfSync(tree[p], manifest[p])

(* the first sync_files returned Ok and src/a, downloaded and verified, is  *)
(* out of sync                                                              *)
C37_Witness ==
    /\ SyncFilesOk
    /\ prevManifest = None
    /\ downloaded = {"src/a"}
    /\ tree["src/a"] = "x"
    /\ OutOfSync(tree["src/a"], manifest["src/a"])

(* the last run_sync ended in download_full_archive with the archive        *)
(* request failed (send error, error status or unreadable body)             *)
ArchiveRequestFailed ==
    /\ spc \in {"returned", "idle"}
    /\ sret.call = "download_full_archive" /\ sret.tag = "Err"
    /\ sret.v \in {"http", "timeout"}

(* the step is the start of the next run_sync, which goes on to              *)
(* download_full_archive or to the loop of sync_files                       *)
NextSyncBegins == spc = "idle" /\ spc' \in {"clear", "sync"}

(* C38 as claimed: when the archive request has failed the previous tree is *)
(* gone, the Sync stage has failed, and the next Sync, finding no local     *)
(* tree, goes to download_full_archive again.                               *)
C38_Original ==
    /\ [](ArchiveRequestFailed => Files(tree) = {})
    /\ [][(ArchiveRequestFailed /\ NextSyncBegins) =>
             spc' = "clear" /\ why' = "no_local_files"]_vars

(* C38 as the code has it: the archive request is sent after the removal of *)
(* the tree was tried; when it fails the Sync stage fails, and the tree is  *)
(* gone unless remove_dir_all failed, so the next Sync goes to              *)
(* download_full_archive again if no file is left and to the manifest if    *)
(* one is.                                                                  *)
C38_GoneUnlessRemovalFailed ==
    /\ []((ArchiveRequestFailed /\ Files(tree) # {}) => engine_dir)
    /\ [][(spc = "fetch" /\ sret'.call = "download_full_archive" /\ sret'.tag = "Err")
            => spc' = "returned" /\ tree' = tree]_vars
    /\ [][(ArchiveRequestFailed /\ NextSyncBegins) =>
             IF Files(tree) = {}
             THEN spc' = "clear" /\ why' = "no_local_files"
             ELSE spc' = "sync" \/ why' = "manifest_failed"]_vars

(* the archive request failed after a removal that failed: files of the     *)
(* previous tree are still there                                            *)
C38_Witness ==
    /\ spc = "returned"
    /\ ArchiveRequestFailed
    /\ why = "manifest_failed"
    /\ tree["src/a"] = "x"
    /\ tree["src/b"] = Missing

(* The invocation before applied an update, request_restart ended it, and   *)
(* the executable it installed carries the version the endpoint reported.   *)
RestartedAfterUpdate ==
    /\ upc = "idle"
    /\ uret.call = "apply_update" /\ uret.tag = "Ok"
    /\ info # None
    /\ BuiltInVersion(target) = info[1].version

(* The update check of this invocation gets the version reported before. *)
SameVersionReported ==
    /\ upc' # "idle"
    /\ resp'.kind = "json"
    /\ resp'.version = info[1].version

(* C39: when the executable an update installed carries the version the     *)
(* launcher-version endpoint reports, the SelfUpdate of the invocation      *)
(* after the restart finds no update, leaves the files alone and returns    *)
(* Ok, so that the pipeline goes on to DependencyAudit; and an update is    *)
(* downloaded or applied only while the version reported differs from that  *)
(* of the executable that runs, so the cycle of update and restart ends     *)
(* with that one update.                                                    *)
C39_UpdatedOnce ==
    /\ [][(RestartedAfterUpdate /\ SameVersionReported) =>
             /\ uret' = Ret("check_for_update", "OkNone", "")
             /\ info' = None
             /\ upc' = "returned"
             /\ UpdOutcome(uret') = "ok"
             /\ disk' = disk]_vars
    /\ []((upc \in {"checked", "verified"}) =>
             resp.kind = "json" /\ resp.version # BuiltInVersion(target))
    /\ [][ApplyEntered => resp.version # BuiltInVersion(target)]_vars

C39_Witness ==
    /\ upc = "returned"
    /\ uret = Ret("check_for_update", "OkNone", "")
    /\ target = "launcher-1.1.0" /\ backup = Missing /\ temp = Missing
    /\ resp.kind = "json" /\ resp.version = "1.1.0"

====
